---- MODULE Spec2Model ----
(***************************************************************************)
(* Model of the plan execution core of RoboVibeCoding:                     *)
(*   backend/execution_engine.py  ExecutionEngine                          *)
(*   backend/mcp_client.py        MCPClient (the client the engine calls)  *)
(* One ExecutionEngine instance executes plans (lists of task dicts)       *)
(* against the remote scene-manipulation service.  A remote round trip is  *)
(* a nondeterministic choice of the service's answer.                      *)
(*                                                                         *)
(* and of its planner:                                                     *)
(*   backend/advanced_planner.py  AdvancedPlanner                          *)
(*   backend/spatial_engine.py    SpatialEngine                            *)
(*   backend/roblox_knowledge.py  get_template                             *)
(*   backend/gemini_client.py     GeminiClient.generate_response           *)
(* One AdvancedPlanner turns a goal into a plan (PlanSpec); an exchange    *)
(* with the planning service is a nondeterministic choice of its text.     *)
(***************************************************************************)
EXTENDS Integers, Sequences, FiniteSets, TLC

(***************************************************************************)
(* Bounds of the model.                                                    *)
(***************************************************************************)
MaxPlanLen == 2      \* longest plan drawn from TaskPool
MaxHaltLen == 5      \* longest plan drawn from HaltPool
MaxKindLen == 1      \* longest plan drawn from KindPool
MaxHistory == 2      \* a plan is submitted while execution_history is at most this long
MaxProbedHistory == 0  \* a message is processed while execution_history is at most this long
MaxCount == 6        \* largest number of objects a layout is asked for

(***************************************************************************)
(* Python string operations used by the engine.                            *)
(***************************************************************************)
Contains(str, w) ==
    \E k \in 1..(Len(str) - Len(w) + 1) : SubSeq(str, k, k + Len(w) - 1) = w

LowerChar(c) ==
    CASE c = "A" -> "a" [] c = "B" -> "b" [] c = "C" -> "c" [] c = "D" -> "d"
      [] c = "E" -> "e" [] c = "F" -> "f" [] c = "G" -> "g" [] c = "H" -> "h"
      [] c = "I" -> "i" [] c = "J" -> "j" [] c = "K" -> "k" [] c = "L" -> "l"
      [] c = "M" -> "m" [] c = "N" -> "n" [] c = "O" -> "o" [] c = "P" -> "p"
      [] c = "Q" -> "q" [] c = "R" -> "r" [] c = "S" -> "s" [] c = "T" -> "t"
      [] c = "U" -> "u" [] c = "V" -> "v" [] c = "W" -> "w" [] c = "X" -> "x"
      [] c = "Y" -> "y" [] c = "Z" -> "z" [] OTHER -> c

RECURSIVE Lower(_)
Lower(str) ==
    IF Len(str) = 0 THEN ""
    ELSE LowerChar(SubSeq(str, 1, 1)) \o Lower(SubSeq(str, 2, Len(str)))

\* parent.split('.')[0]
RECURSIVE SplitFirst(_)
SplitFirst(str) ==
    IF Len(str) = 0 \/ SubSeq(str, 1, 1) = "." THEN ""
    ELSE SubSeq(str, 1, 1) \o SplitFirst(SubSeq(str, 2, Len(str)))

(***************************************************************************)
(* Values answered by the remote service (JSON bodies), as far as the      *)
(* engine inspects them: shape, the keys of an object, the value under     *)
(* CFrame (<<>> when absent) and the number of children listed.            *)
(***************************************************************************)
Json(shape, keys, cframe, n) ==
    [shape |-> shape, keys |-> keys, cframe |-> cframe, n |-> n]

okObj       == Json("dict", {"success"}, <<>>, 0)
errObj      == Json("dict", {"error"}, <<>>, 0)
emptyObj    == Json("dict", {}, <<>>, 0)
nullVal     == Json("null", {}, <<>>, 0)
listVal     == Json("list", {}, <<>>, 2)
propsOrigin == Json("dict", {"CFrame", "Name"}, <<0, 0, 0>>, 0)
propsPlaced == Json("dict", {"CFrame", "Name"}, <<0, 5, 0>>, 0)
childrenObj == Json("dict", {"children"}, <<>>, 1)

\* bodies the service may answer an execution call with
ExecBodies == {okObj, errObj}

\* bodies the service may answer a verification call with
VerifyBodies == {okObj, errObj, emptyObj, nullVal, listVal,
                 propsOrigin, propsPlaced, childrenObj}

\* transport-level outcome of one request
Statuses == {"200", "500", "timeout"}

\* Python truthiness and isinstance(result, dict)
IsDict(v) == v.shape = "dict"
Truthy(v) ==
    CASE v.shape = "dict" -> v.keys # {}
      [] v.shape = "list" -> v.n > 0
      [] OTHER -> FALSE

(***************************************************************************)
(* Python values that may be None where a dict or list is expected.        *)
(***************************************************************************)
None == "None"
PyDict(d) == [py |-> "dict", val |-> d]
PyNone == [py |-> "None", val |-> <<>>]
PyList(n) == [py |-> "list", n |-> n]
PyNoList == [py |-> "None", n |-> 0]

Has(d, k) == k \in DOMAIN d
\* d.get(k) for a key whose values are strings
Get(d, k) == IF Has(d, k) THEN d[k] ELSE None
\* d.get(k, default)
GetOr(d, k, default) == IF Has(d, k) THEN d[k] ELSE default

\* a pose value of a CFrame property: its format and the position it denotes
Pose(fmt, xyz) == [fmt |-> fmt, xyz |-> xyz]

(***************************************************************************)
(* MCPClient                                                               *)
(***************************************************************************)
\* the keys of tool_map in MCPClient.call_tool
ToolNames == {"create_object", "create_object_with_properties",
              "mass_create_objects_with_properties", "set_property",
              "mass_set_property", "get_instance_properties",
              "get_instance_children", "search_objects", "get_file_tree",
              "delete_object", "get_script_source", "set_script_source"}

\* the JSON body each client method posts, from the arguments tool_map passes
RequestJson(tool_name, p) ==
    CASE tool_name = "create_object" ->
           [class_name |-> IF Has(p, "className") THEN p.className
                           ELSE Get(p, "class_name"),
            parent_path |-> IF Has(p, "parent") THEN p.parent
                            ELSE Get(p, "parent_path")]
           @@ (IF Has(p, "name") /\ p.name # "" THEN [name |-> p.name] ELSE <<>>)
      [] tool_name = "create_object_with_properties" ->
           [className |-> Get(p, "className"), parent |-> Get(p, "parent")]
           @@ (IF Has(p, "name") /\ p.name # "" THEN [name |-> p.name] ELSE <<>>)
           @@ (IF Has(p, "properties") /\ DOMAIN p.properties # {}
               THEN [properties |-> p.properties] ELSE <<>>)
      [] tool_name = "mass_create_objects_with_properties" ->
           [objects |-> GetOr(p, "objects", PyNoList)]
      [] tool_name = "set_property" ->
           [path |-> Get(p, "path"), property_name |-> Get(p, "property_name"),
            property_value |-> Get(p, "property_value")]
      [] tool_name = "mass_set_property" ->
           [paths |-> Get(p, "paths"), property_name |-> Get(p, "property_name"),
            property_value |-> Get(p, "property_value")]
      [] tool_name \in {"get_instance_properties", "get_instance_children",
                        "delete_object"} ->
           [path |-> Get(p, "path")]
      [] tool_name = "search_objects" ->
           [query |-> Get(p, "query"),
            search_type |-> GetOr(p, "search_type", "name")]
      [] tool_name = "get_script_source" ->
           [instancePath |-> Get(p, "instancePath")]
      [] tool_name = "set_script_source" ->
           [instancePath |-> Get(p, "instancePath"), source |-> Get(p, "source")]
      [] OTHER -> <<>>

MCPRequest(endpoint, json) == [endpoint |-> endpoint, json |-> json]

\* every client method: post, raise_for_status, response.json(); any
\* exception becomes an object carrying an error field
ClientReturn(resp) == IF resp.status = "200" THEN resp.body ELSE errObj

\* MCPClient.call_tool(tool_name, params) when the service answers resp:
\* whether it raised, what it returned and the requests it sent
call_tool(tool_name, p, resp) ==
    IF tool_name \notin ToolNames
    THEN [raised |-> FALSE, text |-> "", result |-> errObj, requests |-> <<>>]
    ELSE IF p.py # "dict" /\ tool_name # "get_file_tree"
    THEN [raised |-> TRUE,
          text |-> "'NoneType' object has no attribute 'get'",
          result |-> nullVal, requests |-> <<>>]
    ELSE [raised |-> FALSE, text |-> "", result |-> ClientReturn(resp),
          requests |-> << MCPRequest(tool_name,
                            IF tool_name = "get_file_tree" THEN <<>>
                            ELSE RequestJson(tool_name, p.val)) >>]

(***************************************************************************)
(* ExecutionEngine: the functions of one task attempt.                     *)
(***************************************************************************)
max_retries == 3

\* task types _execute_task forwards unchanged to call_tool
DirectKinds == {"create_object", "create_object_with_properties", "set_property",
                "mass_set_property", "get_instance_properties",
                "get_instance_children", "search_objects", "get_file_tree",
                "delete_object"}

\* the task types _execute_task knows
KnownKinds == DirectKinds \cup
              {"mass_create_objects_with_properties", "create_script", "chat"}

\* ScriptParams with the script text left under the task's own key
ScriptParamsContentKey(params) ==
    [className |-> GetOr(params, "script_type", "Script"),
     parent |-> GetOr(params, "parent_path", "ServerScriptService"),
     name |-> GetOr(params, "name", "NewScript"),
     properties |-> [content |-> GetOr(params, "content", "-- Empty script")]]

\* the parameters a create_script task is translated into
ScriptParams(params) ==
    [className |-> GetOr(params, "script_type", "Script"),
     parent |-> GetOr(params, "parent_path", "ServerScriptService"),
     name |-> GetOr(params, "name", "NewScript"),
     properties |-> [Source |-> GetOr(params, "content", "-- Empty script")]]

Executed(ok, result, msg, requests) ==
    [success |-> ok, result |-> result, error_msg |-> msg, requests |-> requests]

\* what a call_tool outcome becomes inside the try/except of _execute_task
FromCall(c) ==
    IF c.raised THEN Executed(FALSE, nullVal, c.text, c.requests)
    ELSE Executed(TRUE, c.result, "", c.requests)

\* _execute_task without its final else: every unlisted type goes to call_tool
ExecuteTaskForwarding(task_type, params, resp) ==
    CASE task_type = "mass_create_objects_with_properties" ->
           IF GetOr(params, "objects", PyList(0)).py # "list"
           THEN Executed(FALSE, nullVal,
                         "object of type 'NoneType' has no len()", <<>>)
           ELSE FromCall(call_tool(task_type, PyDict(params), resp))
      [] task_type = "create_script" ->
           FromCall(call_tool("create_object_with_properties",
                              PyDict(ScriptParams(params)), resp))
      [] task_type = "chat" ->
           Executed(TRUE, Json("dict", DOMAIN params, <<>>, 0), "", <<>>)
      [] OTHER -> FromCall(call_tool(task_type, PyDict(params), resp))

\* ExecutionEngine._execute_task(task_type, params), the service answering resp
ExecuteTask(task_type, params, resp) ==
    CASE task_type \in DirectKinds ->
           FromCall(call_tool(task_type, PyDict(params), resp))
      [] task_type = "mass_create_objects_with_properties" ->
           IF GetOr(params, "objects", PyList(0)).py # "list"
           THEN \* len(objects) raises TypeError
                Executed(FALSE, nullVal,
                         "object of type 'NoneType' has no len()", <<>>)
           ELSE FromCall(call_tool(task_type, PyDict(params), resp))
      [] task_type = "create_script" ->
           FromCall(call_tool("create_object_with_properties",
                              PyDict(ScriptParams(params)), resp))
      [] task_type = "chat" ->
           Executed(TRUE, Json("dict", DOMAIN params, <<>>, 0), "", <<>>)
      [] OTHER ->
           Executed(FALSE, nullVal, "Unknown task type: " \o task_type, <<>>)

Verified(ok, c) ==
    [ok |-> ok, requests |-> c.requests, result |-> c.result, raised |-> c.raised]

\* the pose check of the get_instance_properties branch
OriginMismatch(original_task, result) ==
    /\ Has(original_task.params, "properties")
    /\ Has(original_task.params.properties, "CFrame")
    /\ result.cframe # <<>>
    /\ result.cframe = <<0, 0, 0>>
    /\ ~ ( /\ original_task.params.properties.CFrame.fmt = "list"
           /\ original_task.params.properties.CFrame.xyz = <<0, 0, 0>> )

\* _verify_task passing every answer but an origin mismatch
VerifyTaskLenient(verify_tool, verify_params, original_task, resp) ==
    LET c == call_tool(verify_tool, verify_params, resp)
        result == c.result
    IN  IF c.raised THEN Verified(TRUE, c)
        ELSE IF IsDict(result) /\ "error" \in result.keys
        THEN Verified(TRUE, c)
        ELSE IF verify_tool = "get_instance_properties"
                /\ Truthy(result) /\ IsDict(result)
        THEN Verified(~ OriginMismatch(original_task, result), c)
        ELSE Verified(TRUE, c)

\* ExecutionEngine._verify_task(verify_tool, verify_params, original_task)
VerifyTask(verify_tool, verify_params, original_task, resp) ==
    LET c == call_tool(verify_tool, verify_params, resp)
        result == c.result
    IN  IF c.raised THEN Verified(TRUE, c)
        ELSE IF IsDict(result) /\ "error" \in result.keys
        THEN Verified(TRUE, c)
        ELSE IF verify_tool = "get_instance_properties"
        THEN IF Truthy(result) /\ IsDict(result)
             THEN Verified(~ OriginMismatch(original_task, result), c)
             ELSE Verified(FALSE, c)
        ELSE \* get_instance_children, get_file_tree and the default branch
             Verified(TRUE, c)

(***************************************************************************)
(* Tasks.  A task is a dict; task.get('verify_with') of a task without the *)
(* key is modelled as "", task.get('verify_params', {}) as PyDict(<<>>).   *)
(* py is the Python type of the plan element: a plan parsed from the       *)
(* planning service's JSON may hold elements that are not dicts.           *)
(***************************************************************************)
Task(type, description, params, verify_with, verify_params, verify_condition) ==
    [py |-> "dict", type |-> type, description |-> description, params |-> params,
     verify_with |-> verify_with, verify_params |-> verify_params,
     verify_condition |-> verify_condition]

\* a plan element that is not a dict: it has no get()
NotADict(py) ==
    [py |-> py, type |-> None, description |-> None, params |-> <<>>,
     verify_with |-> "", verify_params |-> PyNone, verify_condition |-> ""]

\* whether task.get(...) can be called on the element
HasGet(element) == element.py = "dict"

Unverified(type, description, params) ==
    Task(type, description, params, "", PyDict(<<>>), "")

\* tasks 1, 3 and 4 of AdvancedPlanner._plan_obby
createFolder ==
    Task("create_object", "Create Checkpoints folder in Workspace",
         [className |-> "Folder", parent |-> "game.Workspace",
          name |-> "Checkpoints", properties |-> <<>>],
         "get_instance_children", PyDict([path |-> "game.Workspace"]), "")
createSpawn ==
    Task("create_object_with_properties", "Create SpawnLocation on first platform",
         [className |-> "SpawnLocation", parent |-> "game.Workspace",
          name |-> "StartSpawn",
          properties |-> [CFrame |-> Pose("dict", <<0, 8, 0>>),
                          BrickColor |-> "Bright green", Transparency |-> "0"]],
         "get_instance_properties",
         PyDict([path |-> "game.Workspace.StartSpawn"]), "")
moveToFolder ==
    Unverified("move_to_folder", "Organize platforms into Checkpoints folder",
               [folder_path |-> "Workspace.Checkpoints"])

\* the fallback task of EnhancedAgenticEngine._fallback_plan
chatTask == Unverified("chat", "Provide guidance", <<>>)

\* tasks as the planning service may propose them: a type the engine does
\* not know, with and without parameters the repair heuristics touch
reparentPart ==
    Unverified("reparent_object", "Move lava part under the lobby",
               [parent |-> "Workspace.Lobby", name |-> "Lava",
                properties |-> [CFrame |-> Pose("str", <<0, 5, 0>>),
                                Material |-> "Neon"]])
movePlain == Unverified("move_object", "Organize platforms", [name |-> "Platform1"])

\* tasks 2 and 5 of _plan_obby, with two platforms
massCreate ==
    Task("mass_create_objects_with_properties",
         "Create 2 obby platforms with calculated positions",
         [objects |-> PyList(2)],
         "get_instance_children", PyDict([path |-> "Workspace"]),
         "Check that 2 platforms exist with different positions")
createScript ==
    Task("create_script", "Create checkpoint system script",
         [name |-> "CheckpointSystem", parent_path |-> "ServerScriptService",
          script_type |-> "Script", content |-> "-- checkpoint system"],
         "get_script_source",
         PyDict([instancePath |-> "ServerScriptService.CheckpointSystem"]), "")

\* one task of every other type _execute_task knows
setProperty ==
    Task("set_property", "Anchor the spawn",
         [path |-> "game.Workspace.StartSpawn", property_name |-> "Anchored",
          property_value |-> "true"],
         "get_instance_properties",
         PyDict([path |-> "game.Workspace.StartSpawn"]), "")
massSetProperty ==
    Unverified("mass_set_property", "Anchor the platforms",
               [paths |-> <<"Workspace.Platform1", "Workspace.Platform2">>,
                property_name |-> "Anchored", property_value |-> "true"])
getProperties ==
    Unverified("get_instance_properties", "Read the spawn",
               [path |-> "game.Workspace.StartSpawn"])
getChildren ==
    Unverified("get_instance_children", "List the workspace",
               [path |-> "game.Workspace"])
searchObjects ==
    Unverified("search_objects", "Find the platforms", [query |-> "Platform"])
getFileTree ==
    Task("get_file_tree", "Get project tree", <<>>,
         "get_file_tree", PyDict(<<>>), "")
deleteObject ==
    Unverified("delete_object", "Delete the old spawn",
               [path |-> "game.Workspace.OldSpawn"])

\* shapes a plan parsed from the planning service's JSON may have: a part
\* placed at the origin on purpose, a null objects list, a null verify_params,
\* a verification tool the client does not know
createAtOrigin ==
    Task("create_object_with_properties", "Create the baseplate marker",
         [className |-> "Part", parent |-> "game.Workspace", name |-> "Marker",
          properties |-> [CFrame |-> Pose("list", <<0, 0, 0>>)]],
         "get_instance_properties",
         PyDict([path |-> "game.Workspace.Marker"]), "")
massCreateNull ==
    Unverified("mass_create_objects_with_properties", "Create the platforms",
               [objects |-> PyNoList])
verifyNullParams ==
    Task("create_object", "Create the lobby model",
         [className |-> "Model", parent |-> "game.Workspace", name |-> "Lobby"],
         "get_instance_properties", PyNone, "")
verifyUnknownTool ==
    Task("create_object", "Create the arena model",
         [className |-> "Model", parent |-> "game.Workspace", name |-> "Arena"],
         "get_descendants", PyDict([path |-> "game.Workspace"]), "")

\* tasks of a type the engine does not know whose name mentions a position:
\* with the pose vector3_to_cframe builds (a dict of position and
\* orientation), and with a pose given as a list
setPositionDict ==
    Unverified("set_position", "Move the marker onto the first platform",
               [parent |-> "game.Workspace", name |-> "Marker",
                properties |-> [CFrame |-> Pose("dict", <<0, 8, 0>>),
                                Material |-> "Neon"]])
setPositionList ==
    Unverified("set_position", "Move the marker to the second platform",
               [parent |-> "Workspace", name |-> "Marker",
                properties |-> [CFrame |-> Pose("list", <<12, 3, 4>>),
                                Material |-> "Neon"]])

KindPool == {createFolder, createSpawn, massCreate, createScript, setProperty,
             massSetProperty, getProperties, getChildren, searchObjects,
             getFileTree, deleteObject, chatTask, moveToFolder, createAtOrigin,
             massCreateNull, verifyNullParams, verifyUnknownTool}

\* an element of a JSON array that is a string, not an object
textElement == NotADict("str")

TaskPool == {createFolder, createSpawn, moveToFolder, reparentPart, chatTask}
HaltPool == {chatTask, moveToFolder, movePlain}
ParsedPool == {chatTask, textElement}
RepairPool == {setPositionDict, setPositionList}

\* the five tasks of _plan_obby in the order it appends them
ObbyPlan == <<createFolder, massCreate, createSpawn, moveToFolder, createScript>>

\* all sequences over pool of length 0..n
SeqsUpTo(pool, n) == UNION {[1..m -> pool] : m \in 0..n}

Plans == SeqsUpTo(TaskPool, MaxPlanLen) \cup SeqsUpTo(HaltPool, MaxHaltLen)
             \cup SeqsUpTo(KindPool, MaxKindLen)
             \cup SeqsUpTo(ParsedPool, MaxPlanLen) \cup {ObbyPlan}
             \cup {<<t>> : t \in RepairPool}

\* a request is answered with a JSON body, or it fails in transport
\* (an error status, a timeout) and there is no body to read
Answers(bodies) ==
    {[status |-> "200", body |-> b] : b \in bodies}
        \cup {[status |-> st, body |-> nullVal] : st \in Statuses \ {"200"}}

Responses == Answers(ExecBodies)
VerifyResponses == Answers(VerifyBodies)

AllTasks == TaskPool \cup HaltPool \cup KindPool \cup RepairPool
Descriptions == {t.description : t \in AllTasks}

\* the texts an attempt of a pool task can fail with
ErrorTexts ==
    {"Verification failed"} \cup
    {"Execution failed: " \o ExecuteTask(t.type, t.params, r).error_msg :
        t \in AllTasks, r \in Responses}

(***************************************************************************)
(* ExecutionEngine: repair and criticality.                                *)
(***************************************************************************)
\* the property names _attempt_fix keeps
essential == {"CFrame", "Size", "Anchored", "BrickColor"}

Fix1Matches(error_message) ==
    Contains(error_message, "CFrame") \/ Contains(Lower(error_message), "position")
\* the second test met by every text
Fix2MatchesAnyText(error_message) == TRUE

Fix2Matches(error_message) ==
    Contains(Lower(error_message), "parent")
        \/ Contains(Lower(error_message), "not found")
Fix3Matches(error_message) ==
    Contains(Lower(error_message), "type")
        \/ Contains(Lower(error_message), "invalid")

\* the three tests, evaluated once for every text an attempt can fail with
Matches ==
    [m \in ErrorTexts |-> [fix1 |-> Fix1Matches(m), fix2 |-> Fix2Matches(m),
                           fix3 |-> Fix3Matches(m)]]

Fix1Applies(task, error_message) ==
    /\ Matches[error_message].fix1
    /\ Has(task.params, "properties")
    /\ Has(task.params.properties, "CFrame")
    /\ task.params.properties.CFrame.fmt # "list"
Fix2Applies(task, error_message) ==
    /\ Matches[error_message].fix2
    /\ Has(task.params, "parent")
    /\ Contains(task.params.parent, ".")
Fix3Applies(task, error_message) ==
    /\ Matches[error_message].fix3
    /\ Has(task.params, "properties")

\* ExecutionEngine._attempt_fix(task, error_message): the task object after
\* the call (the fixes assign into task['params'], the caller's dict)
AttemptFix(task, error_message) ==
    CASE Fix1Applies(task, error_message) ->
           [task EXCEPT !.params.properties.CFrame = Pose("list", <<0, 5, 0>>)]
      [] ~ Fix1Applies(task, error_message) /\ Fix2Applies(task, error_message) ->
           [task EXCEPT !.params.parent = SplitFirst(@)]
      [] ~ Fix1Applies(task, error_message) /\ ~ Fix2Applies(task, error_message)
           /\ Fix3Applies(task, error_message) ->
           [task EXCEPT !.params.properties =
               [k \in DOMAIN @ \cap essential |-> @[k]]]
      [] OTHER -> task

\* ExecutionEngine._is_critical_task(task); history is len(execution_history)
MentionsFolderOrStructure(description) ==
    \/ Contains(Lower(description), "folder")
    \/ Contains(Lower(description), "structure")

\* the test, evaluated once for every description of the pools
Marked == [d \in Descriptions |-> MentionsFolderOrStructure(d)]

\* _is_critical_task without the description test
IsCriticalTaskByHistoryOnly(task, history) == history < 2

IsCriticalTask(task, history) ==
    \/ Marked[task.description]
    \/ history < 2

(***************************************************************************)
(* Python string operations used by the planner.                           *)
(***************************************************************************)
\* the character at 1-based position p, "" outside the string
At(s, p) == IF p >= 1 /\ p <= Len(s) THEN SubSeq(s, p, p) ELSE ""

Whitespace == {" ", "\n", "\t"}
Digits == {"0", "1", "2", "3", "4", "5", "6", "7", "8", "9"}

RECURSIVE SkipWs(_, _)
SkipWs(s, p) == IF At(s, p) \in Whitespace THEN SkipWs(s, p + 1) ELSE p

RECURSIVE SkipWsBack(_, _)
SkipWsBack(s, p) == IF At(s, p) \in Whitespace THEN SkipWsBack(s, p - 1) ELSE p

\* str.strip()
Strip(s) ==
    LET a == SkipWs(s, 1)
        b == SkipWsBack(s, Len(s))
    IN  IF a > b THEN "" ELSE SubSeq(s, a, b)

\* whether w is in s at position p
StartsAt(s, p, w) ==
    p >= 1 /\ p + Len(w) - 1 <= Len(s) /\ SubSeq(s, p, p + Len(w) - 1) = w

\* the 1-based position of the first occurrence of w at or after from, else 0
RECURSIVE Find(_, _, _)
Find(s, w, from) ==
    IF from + Len(w) - 1 > Len(s) THEN 0
    ELSE IF StartsAt(s, from, w) THEN from
    ELSE Find(s, w, from + 1)

\* the 1-based position of the last occurrence of w at or before from, else 0
RECURSIVE RFind(_, _, _)
RFind(s, w, from) ==
    IF from < 1 THEN 0
    ELSE IF StartsAt(s, from, w) THEN from
    ELSE RFind(s, w, from - 1)

\* str.split(sep)
RECURSIVE Split(_, _)
Split(s, sep) ==
    LET k == Find(s, sep, 1)
    IN  IF k = 0 THEN <<s>>
        ELSE <<SubSeq(s, 1, k - 1)>> \o Split(SubSeq(s, k + Len(sep), Len(s)), sep)

\* str.count(sep)
Count(s, sep) == Len(Split(s, sep)) - 1

\* s[s.find(open):s.rfind(close)+1]
Between(s, open, close) ==
    LET a == Find(s, open, 1)
        b == RFind(s, close, Len(s))
    IN  IF a > b THEN "" ELSE SubSeq(s, a, b)

(***************************************************************************)
(* json.loads, for the JSON the planner meets: objects, arrays, strings    *)
(* without escapes, integers, true, false, null.  A parsed value is a node *)
(* [shape, text, keys, items]: text holds a string's characters or a       *)
(* number's digits, items an array's elements or an object's values, keys  *)
(* an object's member names in order.                                      *)
(***************************************************************************)
Node(shape, text, keys, items) ==
    [shape |-> shape, text |-> text, keys |-> keys, items |-> items]

JNull == Node("null", "", <<>>, <<>>)
JStr(s) == Node("str", s, <<>>, <<>>)
JNum(digits) == Node("num", digits, <<>>, <<>>)
JBool(b) == Node("bool", b, <<>>, <<>>)
JList(items) == Node("list", "", <<>>, items)
JDict(keys, items) == Node("dict", "", keys, items)

Parsed(pos, node) == [ok |-> TRUE, pos |-> pos, node |-> node]
NotParsed == [ok |-> FALSE, pos |-> 0, node |-> JNull]

\* the position of the quote closing a string whose first character is at p
RECURSIVE EndOfString(_, _)
EndOfString(s, p) ==
    IF At(s, p) = "" \/ At(s, p) \in {"\\", "\n", "\t"} THEN 0
    ELSE IF At(s, p) = "\"" THEN p
    ELSE EndOfString(s, p + 1)

RECURSIVE EndOfDigits(_, _)
EndOfDigits(s, p) == IF At(s, p) \in Digits THEN EndOfDigits(s, p + 1) ELSE p

ParseNumber(s, p) ==
    LET d == IF At(s, p) = "-" THEN p + 1 ELSE p
        e == IF At(s, d) = "0" THEN d + 1 ELSE EndOfDigits(s, d)
    IN  IF At(s, d) \notin Digits THEN NotParsed
        ELSE Parsed(e, JNum(SubSeq(s, p, e - 1)))

RECURSIVE ParseValue(_, _), ParseElements(_, _, _), ParseMembers(_, _, _, _)
ParseValue(s, p0) ==
    LET p == SkipWs(s, p0)
        c == At(s, p)
    IN  CASE c = "[" -> ParseElements(s, p + 1, <<>>)
          [] c = "{" -> ParseMembers(s, p + 1, <<>>, <<>>)
          [] c = "\"" ->
               LET e == EndOfString(s, p + 1)
               IN  IF e = 0 THEN NotParsed
                   ELSE Parsed(e + 1, JStr(SubSeq(s, p + 1, e - 1)))
          [] c \in Digits \cup {"-"} -> ParseNumber(s, p)
          [] StartsAt(s, p, "true") -> Parsed(p + 4, JBool("true"))
          [] StartsAt(s, p, "false") -> Parsed(p + 5, JBool("false"))
          [] StartsAt(s, p, "null") -> Parsed(p + 4, JNull)
          [] OTHER -> NotParsed

ParseElements(s, p, acc) ==
    LET q == SkipWs(s, p)
    IN  IF acc = <<>> /\ At(s, q) = "]" THEN Parsed(q + 1, JList(acc))
        ELSE LET v == ParseValue(s, q)
                 r == SkipWs(s, v.pos)
             IN  IF ~ v.ok THEN NotParsed
                 ELSE IF At(s, r) = "," THEN ParseElements(s, r + 1, Append(acc, v.node))
                 ELSE IF At(s, r) = "]" THEN Parsed(r + 1, JList(Append(acc, v.node)))
                 ELSE NotParsed

ParseMembers(s, p, keys, vals) ==
    LET q == SkipWs(s, p)
        e == EndOfString(s, q + 1)
        r == SkipWs(s, e + 1)
        v == ParseValue(s, r + 1)
        t == SkipWs(s, v.pos)
    IN  IF keys = <<>> /\ At(s, q) = "}" THEN Parsed(q + 1, JDict(keys, vals))
        ELSE IF At(s, q) # "\"" \/ e = 0 \/ At(s, r) # ":" THEN NotParsed
        ELSE IF ~ v.ok THEN NotParsed
        ELSE IF At(s, t) = ","
        THEN ParseMembers(s, t + 1, Append(keys, SubSeq(s, q + 1, e - 1)),
                          Append(vals, v.node))
        ELSE IF At(s, t) = "}"
        THEN Parsed(t + 1, JDict(Append(keys, SubSeq(s, q + 1, e - 1)),
                                 Append(vals, v.node)))
        ELSE NotParsed

\* json.loads(s): the value, or a JSONDecodeError (ok is FALSE)
json_loads(s) ==
    LET v == ParseValue(s, 1)
    IN  IF v.ok /\ SkipWs(s, v.pos) > Len(s) THEN v ELSE NotParsed

\* Python truthiness of a parsed value
TruthyNode(n) ==
    CASE n.shape = "dict" -> n.keys # <<>>
      [] n.shape = "list" -> n.items # <<>>
      [] n.shape = "str" -> n.text # ""
      [] n.shape = "num" -> n.text \notin {"0", "-0"}
      [] n.shape = "bool" -> n.text = "true"
      [] OTHER -> FALSE

(***************************************************************************)
(* AdvancedPlanner._extract_json.  A strategy that yields None is modelled *)
(* as yielding "": the loop skips both alike (if extracted).  The fence    *)
(* mark of three backquotes is written ~~~, a backquote not being a        *)
(* character a string can hold here.                                       *)
(***************************************************************************)
Fence == "~~~"
FenceJson == "~~~json"

Strategy(k, s) ==
    CASE k = 1 -> s
      [] k = 2 -> IF Find(s, FenceJson, 1) # 0
                  THEN LET after == Split(s, FenceJson)
                       IN  Split(after[Len(after)], Fence)[1]
                  ELSE ""
      [] k = 3 -> IF Count(s, Fence) >= 2
                  THEN LET parts == Split(s, Fence) IN parts[Len(parts) - 1]
                  ELSE ""
      [] k = 4 -> IF Find(s, "[", 1) # 0 /\ Find(s, "]", 1) # 0
                  THEN Between(s, "[", "]") ELSE ""
      [] k = 5 -> IF Find(s, "{", 1) # 0 /\ Find(s, "}", 1) # 0
                  THEN Between(s, "{", "}") ELSE ""

NumStrategies == 5

Extracted(by, node) == [by |-> by, node |-> node]

\* the loop over strategies from strategy k on; by = 0: the loop ended and
\* None is returned
RECURSIVE ExtractFrom(_, _)
ExtractFrom(k, s) ==
    IF k > NumStrategies THEN Extracted(0, JNull)
    ELSE LET extracted == Strategy(k, s)
             v == json_loads(Strip(extracted))
         IN  IF extracted # "" /\ v.ok THEN Extracted(k, v.node)
             ELSE ExtractFrom(k + 1, s)

extract_json(text) == ExtractFrom(1, Strip(text))

(***************************************************************************)
(* Values the planner builds, as JSON nodes.                               *)
(***************************************************************************)
\* a dict from its (key, value) pairs, in order
Obj(pairs) ==
    JDict([k \in 1..Len(pairs) |-> pairs[k][1]], [k \in 1..Len(pairs) |-> pairs[k][2]])

Num(n) == JNum(ToString(n))
NumList(ns) == JList([k \in 1..Len(ns) |-> Num(ns[k])])

HasKey(n, key) == n.shape = "dict" /\ \E k \in 1..Len(n.keys) : n.keys[k] = key
\* n[key] of a dict that has the key
Field(n, key) ==
    n.items[CHOOSE k \in 1..Len(n.keys) :
                /\ n.keys[k] = key
                /\ \A j \in (k + 1)..Len(n.keys) : n.keys[j] # key]

(***************************************************************************)
(* SpatialEngine                                                           *)
(***************************************************************************)
vector3_to_cframe(x, y, z) ==
    Obj(<< <<"position", NumList(<<x, y, z>>)>>,
           <<"orientation", JList(<<NumList(<<1, 0, 0>>), NumList(<<0, 1, 0>>),
                                    NumList(<<0, 0, 1>>)>>)>> >>)

\* the difficulty table of calculate_obby_platforms
settings ==
    [easy   |-> [x_spacing |-> 8,  z_spacing |-> 0, y_variation |-> 2,
                 platform_size |-> <<8, 1, 8>>],
     medium |-> [x_spacing |-> 10, z_spacing |-> 2, y_variation |-> 3,
                 platform_size |-> <<6, 1, 6>>],
     hard   |-> [x_spacing |-> 12, z_spacing |-> 4, y_variation |-> 4,
                 platform_size |-> <<4, 1, 4>>]]

\* the settings of the medium tier, whatever the difficulty
ConfigOfMedium(difficulty) == settings["medium"]

\* settings.get(difficulty, settings['medium'])
ConfigOf(difficulty) ==
    IF difficulty \in DOMAIN settings THEN settings[difficulty] ELSE settings["medium"]

\* the z step with its sign at even and odd indexes exchanged
ZStepMirrored(i, config) == (IF i % 2 = 0 THEN 1 ELSE -1) * config.z_spacing

\* what platform i > 0 adds to current_z, and to current_y
ZStep(i, config) == (IF i % 2 = 0 THEN -1 ELSE 1) * config.z_spacing
YStep(i, config) ==
    IF i % 3 = 0 THEN config.y_variation
    ELSE IF i % 3 = 1 THEN -(config.y_variation \div 2)
    ELSE 0

\* (current_x, current_y, current_z) at each of the first n platforms
RECURSIVE PlatformPositions(_, _)
PlatformPositions(n, config) ==
    IF n <= 0 THEN <<>>
    ELSE IF n = 1 THEN << <<0, 5, 0>> >>
    ELSE LET before == PlatformPositions(n - 1, config)
             i == n - 1
         IN  Append(before, << before[i][1] + config.x_spacing,
                               before[i][2] + YStep(i, config),
                               before[i][3] + ZStep(i, config) >>)

colors == <<"Bright blue", "Bright green", "Bright yellow",
            "Bright orange", "Bright red", "Bright violet">>
get_obby_color(index) == colors[(index % Len(colors)) + 1]

\* one entry of the list calculate_obby_platforms returns
PlatformConfig(i, at, config) ==
    Obj(<< <<"name", JStr("Platform" \o ToString(i + 1))>>,
           <<"className", JStr("Part")>>,
           <<"parent", JStr("game.Workspace")>>,
           <<"properties",
             Obj(<< <<"CFrame", vector3_to_cframe(at[1], at[2], at[3])>>,
                    <<"Size", NumList(config.platform_size)>>,
                    <<"BrickColor", JStr(get_obby_color(i))>>,
                    <<"Material", JStr("Plastic")>>,
                    <<"Anchored", JBool("true")>> >>)>> >>)

calculate_obby_platforms(num_platforms, difficulty) ==
    LET config == ConfigOf(difficulty)
        at == PlatformPositions(num_platforms, config)
    IN  [k \in 1..num_platforms |-> PlatformConfig(k - 1, at[k], config)]

\* the position a CFrame node holds, as the texts of its three numbers
PositionOf(cframe) ==
    LET pos == Field(cframe, "position").items
    IN  <<pos[1].text, pos[2].text, pos[3].text>>

\* platform_size[1]/2 + 2.5 above the platform; every platform is 1 high,
\* so the sum is a whole number; the position is read back from the texts
RECURSIVE ToInt(_)
DigitValue(c) ==
    CASE c = "0" -> 0 [] c = "1" -> 1 [] c = "2" -> 2 [] c = "3" -> 3
      [] c = "4" -> 4 [] c = "5" -> 5 [] c = "6" -> 6 [] c = "7" -> 7
      [] c = "8" -> 8 [] c = "9" -> 9
ToInt(ds) ==
    IF ds = "" THEN 0
    ELSE IF At(ds, 1) = "-" THEN 0 - ToInt(SubSeq(ds, 2, Len(ds)))
    ELSE 10 * ToInt(SubSeq(ds, 1, Len(ds) - 1)) + DigitValue(At(ds, Len(ds)))

get_spawn_location(platform_cframe, platform_size) ==
    LET pos == PositionOf(platform_cframe)
    IN  vector3_to_cframe(ToInt(pos[1]),
                          ToInt(pos[2]) + (ToInt(platform_size.items[2].text) + 5) \div 2,
                          ToInt(pos[3]))

\* calculate_building_layout(building_type, size), as far as a plan is read
\* afterwards: the parts and their names, not their geometry
BuildingPart(name, className, parent) ==
    Obj(<< <<"name", JStr(name)>>, <<"className", JStr(className)>>,
           <<"parent", JStr(parent)>>,
           <<"properties", Obj(<< <<"Anchored", JBool("true")>> >>)>> >>)

create_house ==
    << BuildingPart("HouseFloor", "Part", "Workspace"),
       BuildingPart("HouseFrontWall", "Part", "Workspace"),
       BuildingPart("HouseBackWall", "Part", "Workspace"),
       BuildingPart("HouseLeftWall", "Part", "Workspace"),
       BuildingPart("HouseRightWall", "Part", "Workspace"),
       BuildingPart("HouseRoof", "WedgePart", "Workspace") >>

floors == [small |-> 5, medium |-> 8, large |-> 12]
create_tower(size) ==
    [k \in 1..(IF size \in DOMAIN floors THEN floors[size] ELSE floors["medium"]) |->
        BuildingPart("TowerFloor" \o ToString(k), "Part", "game.Workspace")]

calculate_building_layout(building_type, size) ==
    CASE building_type = "house" -> create_house
      [] building_type = "tower" -> create_tower(size)
      [] building_type = "shop" -> create_house
      [] OTHER -> <<>>

(***************************************************************************)
(* roblox_knowledge.get_template                                           *)
(***************************************************************************)
\* ROBLOX_CODE_TEMPLATES['checkpoint_system'], cut down to its first line
\* and the first of its lines that holds braces
checkpoint_system ==
    "-- Checkpoint System for Obby Games\nlocal playerCheckpoints = {}"

\* str.format() called without arguments raises at the first brace that is
\* not doubled: a replacement field it has nothing to fill with, or a
\* single closing brace
RECURSIVE FormatRaises(_, _)
FormatRaises(template, p) ==
    IF p > Len(template) THEN FALSE
    ELSE IF At(template, p) \in {"{", "}"}
    THEN IF At(template, p + 1) = At(template, p)
         THEN FormatRaises(template, p + 2)
         ELSE TRUE
    ELSE FormatRaises(template, p + 1)

(***************************************************************************)
(* AdvancedPlanner: reading the request.                                   *)
(***************************************************************************)
ObbyWords == {"obby", "obstacle course", "parkour"}
BuildingWords == {"build", "house", "tower", "shop", "map"}
ScriptWords == {"script", "code", "system"}

\* the plan function _hierarchical_decomposition hands the request to
Classify(user_request) ==
    LET request_lower == Lower(user_request)
    IN  IF \E word \in ObbyWords : Contains(request_lower, word) THEN "obby"
        ELSE IF Contains(request_lower, "tycoon") THEN "tycoon"
        ELSE IF \E word \in BuildingWords : Contains(request_lower, word)
        THEN "building"
        ELSE IF /\ \E word \in ScriptWords : Contains(request_lower, word)
                /\ Contains(request_lower, "create")
        THEN "script"
        ELSE "generic"

\* re.search(r'(\d+)\s*(?:platform|stage|level|part)', s): group(1) of the
\* leftmost match, "" when there is none
CountWords == {"platform", "stage", "level", "part"}
RECURSIVE CountMatch(_, _)
CountMatch(s, p) ==
    IF p > Len(s) THEN ""
    ELSE LET e == EndOfDigits(s, p)
             q == SkipWs(s, e)
         IN  IF e > p /\ \E word \in CountWords : StartsAt(s, q, word)
             THEN SubSeq(s, p, e - 1)
             ELSE CountMatch(s, p + 1)

\* re.search(r'(?:called|named)\s+["\']?(\w+)["\']?', s): group(1) of the
\* leftmost match, "" when there is none
WordChars ==
    Digits \cup {"_"} \cup
    {"a", "b", "c", "d", "e", "f", "g", "h", "i", "j", "k", "l", "m", "n", "o",
     "p", "q", "r", "s", "t", "u", "v", "w", "x", "y", "z", "A", "B", "C", "D",
     "E", "F", "G", "H", "I", "J", "K", "L", "M", "N", "O", "P", "Q", "R", "S",
     "T", "U", "V", "W", "X", "Y", "Z"}
RECURSIVE EndOfWord(_, _)
EndOfWord(s, p) == IF At(s, p) \in WordChars THEN EndOfWord(s, p + 1) ELSE p
RECURSIVE NameMatch(_, _)
NameMatch(s, p) ==
    IF p > Len(s) THEN ""
    ELSE LET a == IF StartsAt(s, p, "called") THEN p + 6
                  ELSE IF StartsAt(s, p, "named") THEN p + 5 ELSE 0
             b == SkipWs(s, a)
             c == IF At(s, b) \in {"\"", "'"} THEN b + 1 ELSE b
             e == EndOfWord(s, c)
         IN  IF a # 0 /\ b > a /\ e > c THEN SubSeq(s, c, e - 1)
             ELSE NameMatch(s, p + 1)

(***************************************************************************)
(* AdvancedPlanner: the plans of the pattern recognizers.  What a plan     *)
(* function does is its returned list, or the exception that left it.      *)
(***************************************************************************)
Planned(tasks) == [raised |-> FALSE, error |-> "", tasks |-> tasks]
PlanRaised(error) == [raised |-> TRUE, error |-> error, tasks |-> <<>>]

\* the locals of _plan_obby computed from the request
ObbyLocals(user_request) ==
    LET lower == Lower(user_request)
        num_match == CountMatch(lower, 1)
        num_platforms == IF num_match # "" THEN ToInt(num_match) ELSE 10
        difficulty == IF Contains(lower, "easy") THEN "easy"
                      ELSE IF Contains(lower, "hard") THEN "hard"
                      ELSE "medium"
    IN  [num_platforms |-> num_platforms, difficulty |-> difficulty,
         platform_configs |-> calculate_obby_platforms(num_platforms, difficulty)]

ObbyFolderTask ==
    Obj(<< <<"type", JStr("create_object")>>,
           <<"description", JStr("Create Checkpoints folder in Workspace")>>,
           <<"params", Obj(<< <<"className", JStr("Folder")>>,
                              <<"parent", JStr("game.Workspace")>>,
                              <<"name", JStr("Checkpoints")>>,
                              <<"properties", Obj(<<>>)>> >>)>>,
           <<"reasoning", JStr("Organize checkpoints in dedicated folder")>>,
           <<"verify_with", JStr("get_instance_children")>>,
           <<"verify_params", Obj(<< <<"path", JStr("game.Workspace")>> >>)>> >>)

ObbyPlatformsTask(l) ==
    Obj(<< <<"type", JStr("mass_create_objects_with_properties")>>,
           <<"description", JStr("Create " \o ToString(l.num_platforms)
                                 \o " obby platforms with calculated positions")>>,
           <<"params", Obj(<< <<"objects", JList(l.platform_configs)>> >>)>>,
           <<"reasoning", JStr("Using mass_create for efficiency with spatially calculated positions. Each platform has unique CFrame coordinates for proper spacing.")>>,
           <<"verify_with", JStr("get_instance_children")>>,
           <<"verify_params", Obj(<< <<"path", JStr("Workspace")>> >>)>>,
           <<"verify_condition", JStr("Check that " \o ToString(l.num_platforms)
                                      \o " platforms exist with different positions")>> >>)

ObbySpawnTask(l) ==
    LET first == Field(l.platform_configs[1], "properties")
        spawn_cframe == get_spawn_location(Field(first, "CFrame"), Field(first, "Size"))
    IN  Obj(<< <<"type", JStr("create_object_with_properties")>>,
               <<"description", JStr("Create SpawnLocation on first platform")>>,
               <<"params", Obj(<< <<"className", JStr("SpawnLocation")>>,
                                  <<"parent", JStr("game.Workspace")>>,
                                  <<"name", JStr("StartSpawn")>>,
                                  <<"properties",
                                    Obj(<< <<"CFrame", spawn_cframe>>,
                                           <<"Size", NumList(<<6, 1, 6>>)>>,
                                           <<"BrickColor", JStr("Bright green")>>,
                                           <<"Transparency", Num(0)>>,
                                           <<"Duration", Num(0)>> >>)>> >>)>>,
               <<"reasoning", JStr("Players need a spawn point on the first platform")>>,
               <<"verify_with", JStr("get_instance_properties")>>,
               <<"verify_params",
                 Obj(<< <<"path", JStr("game.Workspace.StartSpawn")>> >>)>> >>)

ObbyMoveTask(l) ==
    Obj(<< <<"type", JStr("move_to_folder")>>,
           <<"description", JStr("Organize platforms into Checkpoints folder")>>,
           <<"params",
             Obj(<< <<"platform_names",
                      JList([k \in 1..l.num_platforms |->
                                JStr("Platform" \o ToString(k))])>>,
                    <<"folder_path", JStr("Workspace.Checkpoints")>> >>)>>,
           <<"reasoning", JStr("Keep workspace organized")>>,
           <<"note", JStr("This requires manual implementation or script")>> >>)

ObbyScriptTask(checkpoint_script) ==
    Obj(<< <<"type", JStr("create_script")>>,
           <<"description", JStr("Create checkpoint system script")>>,
           <<"params", Obj(<< <<"name", JStr("CheckpointSystem")>>,
                              <<"parent_path", JStr("ServerScriptService")>>,
                              <<"script_type", JStr("Script")>>,
                              <<"content", JStr(checkpoint_script)>> >>)>>,
           <<"reasoning", JStr("Script to handle checkpoint saving and respawning")>>,
           <<"verify_with", JStr("get_script_source")>>,
           <<"verify_params",
             Obj(<< <<"instancePath",
                      JStr("ServerScriptService.CheckpointSystem")>> >>)>> >>)

\* AdvancedPlanner._plan_obby
plan_obby(user_request) ==
    LET l == ObbyLocals(user_request)
    IN  IF l.platform_configs = <<>>
        THEN \* platform_configs[0]
             PlanRaised("list index out of range")
        ELSE IF FormatRaises(checkpoint_system, 1)
        THEN \* get_template('checkpoint_system')
             PlanRaised("Replacement index 0 out of range for positional args tuple")
        ELSE Planned(<< ObbyFolderTask, ObbyPlatformsTask(l), ObbySpawnTask(l),
                        ObbyMoveTask(l), ObbyScriptTask(checkpoint_system) >>)

\* AdvancedPlanner._plan_tycoon
plan_tycoon ==
    Planned(<<
        Obj(<< <<"type", JStr("create_object")>>,
               <<"description", JStr("Create TycoonData folder")>>,
               <<"params", Obj(<< <<"className", JStr("Folder")>>,
                                  <<"parent", JStr("ReplicatedStorage")>>,
                                  <<"name", JStr("TycoonData")>>,
                                  <<"properties", Obj(<<>>)>> >>)>> >>),
        Obj(<< <<"type", JStr("create_object_with_properties")>>,
               <<"description", JStr("Create tycoon base plot")>>,
               <<"params", Obj(<< <<"className", JStr("Part")>>,
                                  <<"parent", JStr("game.Workspace")>>,
                                  <<"name", JStr("TycoonPlot")>>,
                                  <<"properties",
                                    Obj(<< <<"CFrame", JList(<<Num(0), JNum("0.5"), Num(0)>>)>>,
                                           <<"Size", NumList(<<50, 1, 50>>)>>,
                                           <<"BrickColor", JStr("Dark green")>>,
                                           <<"Anchored", JBool("true")>> >>)>> >>)>> >>) >>)

\* AdvancedPlanner._plan_building
plan_building(user_request) ==
    LET lower == Lower(user_request)
        building_type == IF Contains(lower, "tower") THEN "tower"
                         ELSE IF Contains(lower, "shop") THEN "shop"
                         ELSE "house"
        size == IF Contains(lower, "small") THEN "small"
                ELSE IF Contains(lower, "large") \/ Contains(lower, "big") THEN "large"
                ELSE "medium"
        building_objects == calculate_building_layout(building_type, size)
    IN  IF building_objects # <<>>
        THEN Planned(<<
               Obj(<< <<"type", JStr("mass_create_objects_with_properties")>>,
                      <<"description", JStr("Create " \o building_type
                                            \o " structure (" \o size \o ")")>>,
                      <<"params", Obj(<< <<"objects", JList(building_objects)>> >>)>>,
                      <<"reasoning", JStr("Using spatial engine to create properly positioned "
                                          \o building_type \o " components")>>,
                      <<"verify_with", JStr("get_instance_children")>>,
                      <<"verify_params", Obj(<< <<"path", JStr("Workspace")>> >>)>> >>) >>)
        ELSE Planned(<<>>)

\* AdvancedPlanner._plan_script_system, the planning service having answered
\* the script prompt with script_content
plan_script_system(user_request, script_content) ==
    LET lower == Lower(user_request)
        kind == IF Contains(lower, "local") \/ Contains(lower, "client")
                THEN <<"LocalScript", "StarterPlayer.StarterPlayerScripts">>
                ELSE IF Contains(lower, "module")
                THEN <<"ModuleScript", "ReplicatedStorage">>
                ELSE <<"Script", "ServerScriptService">>
        script_type == kind[1]
        parent_path == kind[2]
        name_match == NameMatch(user_request, 1)
        script_name == IF name_match # "" THEN name_match ELSE "NewScript"
    IN  Planned(<<
          Obj(<< <<"type", JStr("create_script")>>,
                 <<"description", JStr("Create " \o script_type \o " for " \o user_request)>>,
                 <<"params", Obj(<< <<"name", JStr(script_name)>>,
                                    <<"parent_path", JStr(parent_path)>>,
                                    <<"script_type", JStr(script_type)>>,
                                    <<"content", JStr(script_content)>> >>)>>,
                 <<"reasoning", JStr("Generated complete script based on requirements")>>,
                 <<"verify_with", JStr("get_script_source")>>,
                 <<"verify_params",
                   Obj(<< <<"instancePath",
                            JStr(parent_path \o "." \o script_name)>> >>)>> >>) >>)

(***************************************************************************)
(* AdvancedPlanner: planning with the planning service.                    *)
(***************************************************************************)
\* max_retries of _plan_with_ai
plan_max_retries == 2

\* the test of _plan_with_ai without isinstance(tasks, list)
UsableAnyShape(tasks) == TruthyNode(tasks)

\* if tasks and isinstance(tasks, list) and len(tasks) > 0
Usable(tasks) ==
    TruthyNode(tasks) /\ tasks.shape = "list" /\ Len(tasks.items) > 0

\* the ultimate fallback of _plan_with_ai
FallbackTask ==
    Obj(<< <<"type", JStr("chat")>>,
           <<"description", JStr("Unable to create detailed plan, providing guidance")>>,
           <<"params", Obj(<<>>)>>,
           <<"reasoning", JStr("Fallback to chat mode")>> >>)

\* the fallback analysis of _analyze_request_with_cot
FallbackAnalysis(user_request) ==
    Obj(<< <<"goal", JStr(user_request)>>,
           <<"components", JList(<<JStr("unknown")>>)>>,
           <<"spatial_requirements",
             Obj(<< <<"needs_positioning", JBool("false")>>,
                    <<"layout_type", JStr("none")>>,
                    <<"num_objects", Num(0)>> >>)>>,
           <<"tool_recommendations", JList(<<JStr("create_object_with_properties")>>)>>,
           <<"dependencies", Obj(<<>>)>>,
           <<"verification_needs", JList(<<>>)>> >>)

(***************************************************************************)
(* The goals users submit and the texts GeminiClient.generate_response     *)
(* returns.  generate_response never raises: an unconfigured client and a  *)
(* failed exchange (quota, network) both come back as a text.              *)
(***************************************************************************)
Goals ==
    {"build a 5 platform easy obby", "hard obby", "make an obby with 0 stages",
     "tycoon obstacle course", "create a PARKOUR script, 3 levels",
     "build a tycoon", "Build a small tower", "create a code system for my shop",
     "create a local script named Greeter", "create a module system",
     "write code", "make a game", "add a leaderboard"}

taskArrayText == "[{\"type\": \"chat\", \"description\": \"hi\", \"params\": {}}]"
wrappedText == "{\"tasks\": [{\"type\": \"chat\"}]}"
unknownKindText == "Here: [{\"type\": \"teleport\", \"params\": {}}] ok"
scalarsText == "~~~json\n[1, \"a\"]\n~~~"
emptyArrayText == "plan\n~~~\n[ ]\n~~~\n"
analysisText == "{\"goal\": \"g\", \"components\": []}"
\* the text of an unconfigured client, without its leading warning sign
unconfiguredText == "Gemini API not configured. Please add your API key in settings."
quotaText == "Error generating response: 429 quota"

Replies == {taskArrayText, wrappedText, unknownKindText, scalarsText,
            emptyArrayText, analysisText, unconfiguredText, quotaText, ""}

\* _extract_json of each reply
Extraction == [text \in Replies |-> extract_json(text)]

\* what each goal is dispatched to, and the obby plan of the obby goals
Dispatch == [goal \in Goals |-> Classify(goal)]
ObbyOutcome ==
    [goal \in {g \in Goals : Dispatch[g] = "obby"} |->
        [locals |-> ObbyLocals(goal), outcome |-> plan_obby(goal)]]

\* _analyze_request_with_cot, the service having answered with text
analyze_request_with_cot(user_request, text) ==
    LET analysis == Extraction[text].node
    IN  IF ~ TruthyNode(analysis) THEN FallbackAnalysis(user_request) ELSE analysis

(***************************************************************************)
(* SpatialEngine: the layout functions, and the arguments they are called  *)
(* with.  A call returns a list or is left by an exception.                *)
(***************************************************************************)
LayoutReturned(value) == [raised |-> FALSE, error |-> "", value |-> value]
LayoutRaised(error) == [raised |-> TRUE, error |-> error, value |-> <<>>]

\* n / 2 as Python prints the float, without the ".0" of a whole number
Half(n) ==
    JNum(IF n % 2 = 0 THEN ToString(n \div 2) ELSE ToString(n \div 2) \o ".5")

\* vector3_to_cframe of coordinates that are given as number nodes
CFrameOf(position) ==
    Obj(<< <<"position", JList(position)>>,
           <<"orientation", JList(<<NumList(<<1, 0, 0>>), NumList(<<0, 1, 0>>),
                                    NumList(<<0, 0, 1>>)>>)>> >>)

\* math.ceil(math.sqrt(num_objects)) of num_objects >= 0
GridSize(num_objects) ==
    CHOOSE g \in 0..num_objects :
        g * g >= num_objects /\ \A h \in 0..(g - 1) : h * h < num_objects

\* the grid laid out with steps of the object's size, the spacing left out
calculate_grid_layout_unspaced(num_objects, object_size, spacing) ==
    IF num_objects < 0 THEN LayoutRaised("math domain error")
    ELSE LET grid_size == GridSize(num_objects)
         IN  LayoutReturned(
               [k \in 1..num_objects |->
                   CFrameOf(<<Num(((k - 1) % grid_size) * object_size[1]),
                              Half(object_size[2]),
                              Num(((k - 1) \div grid_size) * object_size[3])>>)])

\* SpatialEngine.calculate_grid_layout
calculate_grid_layout(num_objects, object_size, spacing) ==
    IF num_objects < 0
    THEN \* math.sqrt of a negative number
         LayoutRaised("math domain error")
    ELSE LET grid_size == GridSize(num_objects)
             x_step == object_size[1] + spacing
             z_step == object_size[3] + spacing
         IN  LayoutReturned(
               [k \in 1..num_objects |->
                   LET row == (k - 1) \div grid_size
                       col == (k - 1) % grid_size
                   IN  CFrameOf(<<Num(col * x_step), Half(object_size[2]),
                                  Num(row * z_step)>>)])

\* radius * math.cos(angle) and radius * math.sin(angle) at angle
\* i * (2 * math.pi) / num_objects, kept as the expression: the float is
\* not computed
OnCircle(radius, fn, i, num_objects) ==
    JNum(ToString(radius) \o "*" \o fn \o "(2pi*" \o ToString(i) \o "/"
         \o ToString(num_objects) \o ")")

\* SpatialEngine.calculate_circular_layout
calculate_circular_layout(num_objects, radius, height) ==
    IF num_objects = 0
    THEN \* (2 * math.pi) / num_objects
         LayoutRaised("float division by zero")
    ELSE LayoutReturned(
           [k \in 1..num_objects |->
               CFrameOf(<<OnCircle(radius, "cos", k - 1, num_objects), Num(height),
                          OnCircle(radius, "sin", k - 1, num_objects)>>)])

\* SpatialEngine.calculate_staircase
calculate_staircase(num_steps, step_size, rise, run) ==
    LayoutReturned(
      [k \in 1..num_steps |->
          Obj(<< <<"name", JStr("Step" \o ToString(k))>>,
                 <<"className", JStr("Part")>>,
                 <<"parent", JStr("game.Workspace")>>,
                 <<"properties",
                   Obj(<< <<"CFrame", CFrameOf(<<Num(0),
                                                 Half(2 * (k - 1) * rise + step_size[2]),
                                                 Num((k - 1) * run)>>)>>,
                          <<"Size", NumList(step_size)>>,
                          <<"BrickColor", JStr("Dark stone grey")>>,
                          <<"Material", JStr("Slate")>>,
                          <<"Anchored", JBool("true")>> >>)>> >>)])

\* the arguments of the calls
Counts == (0 - 1)..MaxCount
Difficulties == {"easy", "medium", "hard", "extreme"}
ObjectSizes == {<<4, 1, 4>>, <<6, 2, 3>>, <<1, 1, 1>>}
Spacings == {0, 2}
Radii == {10, 20}
Rises == {1, 2}
NoCall == [op |-> "none", count |-> 0, difficulty |-> "", object_size |-> <<>>,
           spacing |-> 0]

(***************************************************************************)
(* State.                                                                  *)
(***************************************************************************)
VARIABLES
    pc,                 \* "idle", "execute", "verify", "finish", "returned",
                        \* "raised" (an exception left execute_plan_with_recovery)
    execution_history,  \* len(self.execution_history)
    tasks,              \* the caller's plan (the list passed by reference)
    i,                  \* index of the current task (0-based)
    attempt,            \* the retry loop's counter
    results, errors, completed_count, last_error,
    summary,            \* the dict execute_plan_with_recovery returned
    \* observations, not read by the engine
    tasks0,             \* the plan as it was when submitted
    attempts,           \* per task: attempts made, requests sent, last outcome
    att,                \* the latest attempt: what was sent and answered
    connected,          \* MCPClient.connected: what the latest health probe found
    \* AdvancedPlanner.create_advanced_plan
    ppc,                \* "idle", "analyze", "script", "plan", "returned",
                        \* "raised" (an exception left create_advanced_plan)
    user_request,
    analysis,           \* what _analyze_request_with_cot returned
    locals,             \* num_platforms, difficulty, platform_configs of _plan_obby
    plan_attempt,       \* rounds of the loop of _plan_with_ai so far
    plan_tasks,         \* the tasks create_advanced_plan returned
    \* observations, not read by the planner
    planner,            \* the plan function the request was handed to
    responses,          \* the texts _plan_with_ai was answered with
    extracted,          \* _extract_json of the latest text, and its strategy
    plan_error,         \* the message of the exception
    previous,           \* how the call of create_advanced_plan before this one
                        \* ended: its goal and its outcome
    \* SpatialEngine
    call,               \* the latest call of a layout function
    layout              \* what it returned, or the exception that left it

engineVars == <<pc, execution_history, tasks, i, attempt, results, errors,
                completed_count, last_error, summary, tasks0, attempts, att,
                connected>>

plannerVars == <<ppc, user_request, analysis, locals, plan_attempt, plan_tasks,
                 planner, responses, extracted, plan_error, previous>>

vars == <<pc, execution_history, tasks, i, attempt, results, errors,
          completed_count, last_error, summary, tasks0, attempts, att,
          connected,
          ppc, user_request, analysis, locals, plan_attempt, plan_tasks,
          planner, responses, extracted, plan_error, previous, call, layout>>

layoutVars == <<call, layout>>

\* what the actions of the engine, of the planner and of the layout
\* functions leave alone
offEngine == <<plannerVars, layoutVars>>
offPlanner == <<engineVars, layoutVars>>
offLayout == <<engineVars, plannerVars>>

NoLocals == [num_platforms |-> 0, difficulty |-> "", platform_configs |-> <<>>]

\* no call of create_advanced_plan has ended yet
NoPrevious == [goal |-> "", ppc |-> "none", tasks |-> JNull, error |-> ""]

NoAttempt ==
    [index |-> 0, phase |-> "none", execResult |-> nullVal,
     execRequests |-> <<>>, verifyRequests |-> <<>>, verifyResult |-> nullVal,
     verifyRaised |-> FALSE, message |-> ""]

NotAttempted ==
    [made |-> 0, last |-> "none", execSent |-> 0, verifySent |-> 0,
     remoteErrors |-> 0]

\* the object an execution request was answered with carries an error field
AnsweredError(e) == e.requests # <<>> /\ "error" \in e.result.keys

NoSummary ==
    [success |-> FALSE, completed_tasks |-> 0, total_tasks |-> 0,
     results |-> <<>>, errors |-> <<>>]

Init ==
    /\ pc = "idle"
    /\ execution_history = 0
    /\ tasks = <<>> /\ tasks0 = <<>>
    /\ i = 0 /\ attempt = 0
    /\ results = <<>> /\ errors = <<>> /\ completed_count = 0
    /\ last_error = ""
    /\ summary = NoSummary
    /\ attempts = <<>>
    /\ att = NoAttempt
    /\ connected = FALSE
    /\ ppc = "idle"
    /\ user_request = "" /\ analysis = JNull /\ locals = NoLocals
    /\ planner = "none" /\ plan_attempt = 0 /\ responses = <<>>
    /\ extracted = Extracted(0, JNull)
    /\ plan_tasks = JNull /\ plan_error = ""
    /\ previous = NoPrevious
    /\ call = NoCall /\ layout = LayoutReturned(<<>>)

\* the task the loop variable `task` refers to
task == tasks[i + 1]

(***************************************************************************)
(* execute_plan_with_recovery, one step per remote round trip.             *)
(***************************************************************************)
\* the summary with total_tasks counting only the tasks that were run
SummaryOfExecuted(completed, plan, res, errs) ==
    [success |-> completed = Len(res) + Len(errs), completed_tasks |-> completed,
     total_tasks |-> Len(res) + Len(errs), results |-> res, errors |-> errs]

\* the dict execute_plan_with_recovery returns
Summary(completed, plan, res, errs) ==
    [success |-> completed = Len(plan), completed_tasks |-> completed,
     total_tasks |-> Len(plan), results |-> res, errors |-> errs]

\* the entry with the task's position counted from one
ErrorEntryOneBased(t, message, index) ==
    [task |-> t.description, error |-> message, task_index |-> index + 1]

\* the entry appended to errors for a task that used up its attempts
ErrorEntry(t, message, index) ==
    [task |-> t.description, error |-> message, task_index |-> index]

\* the retry loop running again only after the first attempt
RetryAfterOnce(n) == n < 1

\* the retry loop running again after every failed attempt up to max_retries
RetryAfterEach(n) == n < max_retries

\* whether the retry loop runs again after the attempt numbered n failed
RetryAfter(n) == n < max_retries - 1

\* where the loop is once it has taken the element at 0-based index k: the
\* body starts with task.get('description', ...), outside any try
LoopAt(plan, k) ==
    IF k >= Len(plan) THEN "finish"
    ELSE IF HasGet(plan[k + 1]) THEN "execute"
    ELSE "raised"

\* the for loop taking the same task again
NextTaskAgain ==
    /\ i' = i
    /\ attempt' = 0
    /\ pc' = LoopAt(tasks, i)

\* the for loop over tasks advances to the next task, or ends
NextTask ==
    /\ i' = i + 1
    /\ attempt' = 0
    /\ pc' = LoopAt(tasks, i + 1)

\* execute_task_with_verification returned (True, result, "Success")
AttemptSucceeded(result) ==
    /\ execution_history' = execution_history + 1
    /\ results' = Append(results, result)
    /\ completed_count' = completed_count + 1
    /\ UNCHANGED <<tasks, errors, last_error>>
    /\ NextTask

\* execute_task_with_verification returned (False, _, message)
AttemptFailed(message) ==
    /\ last_error' = message
    /\ UNCHANGED <<execution_history, results, completed_count>>
    /\ IF RetryAfter(attempt)
       THEN /\ tasks' = [tasks EXCEPT ![i + 1] = AttemptFix(@, message)]
            /\ attempt' = attempt + 1
            /\ pc' = "execute"
            /\ UNCHANGED <<i, errors>>
       ELSE /\ errors' = Append(errors, ErrorEntry(task, message, i))
            /\ tasks' = tasks
            /\ IF IsCriticalTask(task, execution_history)
               THEN pc' = "finish" /\ UNCHANGED <<i, attempt>>
               ELSE NextTask

\* a caller submits a plan to execute_plan_with_recovery of the engine it
\* keeps (EnhancedAgenticEngine.executor)
Call ==
    /\ pc = "idle"
    /\ execution_history <= MaxHistory
    /\ \E plan \in Plans :
         /\ tasks' = plan
         /\ tasks0' = plan
         /\ attempts' = [k \in 1..Len(plan) |-> NotAttempted]
         /\ pc' = LoopAt(plan, 0)
    /\ UNCHANGED <<execution_history, i, attempt, results, errors,
                   completed_count, last_error, summary, att, connected>>
    /\ UNCHANGED offEngine

\* one attempt starts: execute_task_with_verification calls _execute_task
Execute ==
    /\ pc = "execute"
    /\ \E resp \in Responses :
         LET e == ExecuteTask(task.type, task.params, resp)
             a == [NoAttempt EXCEPT !.index = i, !.execResult = e.result,
                                    !.execRequests = e.requests]
             n == [attempts[i + 1] EXCEPT
                     !.made = @ + 1,
                     !.execSent = @ + Len(e.requests),
                     !.remoteErrors = @ + (IF AnsweredError(e) THEN 1 ELSE 0)]
         IN  IF ~ e.success
             THEN /\ att' = [a EXCEPT !.phase = "failed",
                                      !.message = "Execution failed: " \o e.error_msg]
                  /\ attempts' = [attempts EXCEPT ![i + 1] = [n EXCEPT !.last = "fail"]]
                  /\ AttemptFailed("Execution failed: " \o e.error_msg)
             ELSE IF task.verify_with # ""
             THEN /\ att' = [a EXCEPT !.phase = "verifying"]
                  /\ attempts' = [attempts EXCEPT ![i + 1] = [n EXCEPT !.last = "none"]]
                  /\ pc' = "verify"
                  /\ UNCHANGED <<execution_history, tasks, i, attempt, results,
                                 errors, completed_count, last_error>>
             ELSE /\ att' = [a EXCEPT !.phase = "succeeded", !.message = "Success"]
                  /\ attempts' = [attempts EXCEPT ![i + 1] = [n EXCEPT !.last = "ok"]]
                  /\ AttemptSucceeded(e.result)
    /\ UNCHANGED <<summary, tasks0, connected>>
    /\ UNCHANGED offEngine

\* the attempt's follow-up read: _verify_task and the rest of
\* execute_task_with_verification
Verify ==
    /\ pc = "verify"
    /\ \E resp \in VerifyResponses :
         LET v == VerifyTask(task.verify_with, task.verify_params, task, resp)
             a == [att EXCEPT !.verifyRequests = v.requests,
                              !.verifyResult = v.result,
                              !.verifyRaised = v.raised]
             n == [attempts[i + 1] EXCEPT !.verifySent = @ + Len(v.requests)]
         IN  IF v.ok
             THEN /\ att' = [a EXCEPT !.phase = "succeeded", !.message = "Success"]
                  /\ attempts' = [attempts EXCEPT ![i + 1] = [n EXCEPT !.last = "ok"]]
                  /\ AttemptSucceeded(att.execResult)
             ELSE /\ att' = [a EXCEPT !.phase = "failed",
                                      !.message = "Verification failed"]
                  /\ attempts' = [attempts EXCEPT ![i + 1] = [n EXCEPT !.last = "fail"]]
                  /\ AttemptFailed("Verification failed")
    /\ UNCHANGED <<summary, tasks0, connected>>
    /\ UNCHANGED offEngine

\* execute_plan_with_recovery returns its summary
Finish ==
    /\ pc = "finish"
    /\ summary' = Summary(completed_count, tasks, results, errors)
    /\ pc' = "returned"
    /\ UNCHANGED <<execution_history, tasks, i, attempt, results, errors,
                   completed_count, last_error, tasks0, attempts, att,
                   connected>>
    /\ UNCHANGED offEngine

\* the caller is done with the summary, or has caught the exception
\* (process_message); nothing of the run is kept but the engine's
\* execution_history
Discard ==
    /\ pc \in {"returned", "raised"}
    /\ pc' = "idle"
    /\ tasks' = <<>> /\ tasks0' = <<>> /\ attempts' = <<>>
    /\ i' = 0 /\ attempt' = 0
    /\ results' = <<>> /\ errors' = <<>> /\ completed_count' = 0
    /\ last_error' = ""
    /\ summary' = NoSummary
    /\ att' = NoAttempt
    /\ UNCHANGED <<execution_history, connected>>
    /\ UNCHANGED offEngine

Next == Call \/ Execute \/ Verify \/ Finish \/ Discard

Spec == Init /\ [][Next]_vars

\* execute_plan_with_recovery is called on an engine as constructed
FirstCall == Call /\ execution_history = 0

RunNext == FirstCall \/ Execute \/ Verify \/ Finish \/ Discard

\* the runs of a new engine, every call of a run returning: a step of a run
\* that can be taken is taken
RunSpec == Init /\ [][RunNext]_vars /\ WF_vars(Execute \/ Verify \/ Finish)

(***************************************************************************)
(* EnhancedAgenticEngine.process_message and process_message_stream: the   *)
(* engine as these two drive it.                                           *)
(***************************************************************************)
\* MCPClient.check_connection: the health probe is answered with status 200
\* (TRUE), or with another status or not at all (FALSE)
StatusFound == BOOLEAN

\* a message that is not a simple request is processed up to the call of
\* execute_plan_with_recovery: _build_enhanced_context probes the service,
\* the planner makes the plan, the plan is submitted
ProcessMessage ==
    /\ pc = "idle"
    /\ execution_history <= MaxProbedHistory
    /\ \E mcp_status \in StatusFound : connected' = mcp_status
    /\ \E task_plan \in Plans :
         /\ tasks' = task_plan
         /\ tasks0' = task_plan
         /\ attempts' = [k \in 1..Len(task_plan) |-> NotAttempted]
         /\ pc' = LoopAt(task_plan, 0)
    /\ UNCHANGED <<execution_history, i, attempt, results, errors,
                   completed_count, last_error, summary, att>>
    /\ UNCHANGED offEngine

MessageNext == ProcessMessage \/ Execute \/ Verify \/ Finish \/ Discard

MessageSpec == Init /\ [][MessageNext]_vars

(***************************************************************************)
(* AdvancedPlanner.create_advanced_plan, one step per exchange with the    *)
(* planning service.                                                       *)
(***************************************************************************)
\* create_advanced_plan returns tasks
PlanReturns(returned) ==
    /\ ppc' = "returned"
    /\ plan_tasks' = returned
    /\ UNCHANGED plan_error

\* an exception leaves create_advanced_plan
PlanRaises(error) ==
    /\ ppc' = "raised"
    /\ plan_error' = error
    /\ UNCHANGED plan_tasks

\* a caller asks for a plan: _analyze_request_with_cot sends its prompt
CreateAdvancedPlan ==
    /\ ppc = "idle"
    /\ \E goal \in Goals : user_request' = goal
    /\ ppc' = "analyze"
    /\ UNCHANGED <<analysis, locals, planner, plan_attempt, responses, extracted,
                   plan_tasks, plan_error, previous>>
    /\ UNCHANGED offPlanner

\* the analysis is answered; _hierarchical_decomposition runs up to its
\* return or its next exchange
Analyze ==
    /\ ppc = "analyze"
    /\ \E text \in Replies :
         /\ analysis' = analyze_request_with_cot(user_request, text)
         /\ extracted' = Extraction[text]
    /\ planner' = Dispatch[user_request]
    /\ CASE planner' = "obby" ->
               /\ locals' = ObbyOutcome[user_request].locals
               /\ LET outcome == ObbyOutcome[user_request].outcome
                  IN  IF outcome.raised THEN PlanRaises(outcome.error)
                      ELSE PlanReturns(JList(outcome.tasks))
         [] planner' = "tycoon" ->
               /\ PlanReturns(JList(plan_tycoon.tasks))
               /\ UNCHANGED locals
         [] planner' = "building" ->
               /\ PlanReturns(JList(plan_building(user_request).tasks))
               /\ UNCHANGED locals
         [] planner' = "script" ->
               /\ ppc' = "script"
               /\ UNCHANGED <<locals, plan_tasks, plan_error>>
         [] planner' = "generic" ->
               /\ ppc' = "plan"
               /\ UNCHANGED <<locals, plan_tasks, plan_error>>
    /\ UNCHANGED <<user_request, plan_attempt, responses, previous>>
    /\ UNCHANGED offPlanner

\* _plan_script_system is answered with the script
ScriptReply ==
    /\ ppc = "script"
    /\ \E text \in Replies :
         PlanReturns(JList(plan_script_system(user_request, text).tasks))
    /\ UNCHANGED <<user_request, analysis, locals, planner, plan_attempt,
                   responses, extracted, previous>>
    /\ UNCHANGED offPlanner

\* one round of the loop of _plan_with_ai
PlanReply ==
    /\ ppc = "plan"
    /\ \E response \in Replies :
         LET got == Extraction[response].node
         IN  /\ responses' = Append(responses, response)
             /\ extracted' = Extraction[response]
             /\ plan_attempt' = plan_attempt + 1
             /\ IF Usable(got) THEN PlanReturns(got)
                ELSE IF plan_attempt + 1 < plan_max_retries
                THEN UNCHANGED <<ppc, plan_tasks, plan_error>>
                ELSE PlanReturns(JList(<<FallbackTask>>))
    /\ UNCHANGED <<user_request, analysis, locals, planner, previous>>
    /\ UNCHANGED offPlanner

\* the caller takes the plan, or the exception
PlanTaken ==
    /\ ppc \in {"returned", "raised"}
    /\ ppc' = "idle"
    /\ user_request' = "" /\ analysis' = JNull /\ locals' = NoLocals
    /\ planner' = "none" /\ plan_attempt' = 0 /\ responses' = <<>>
    /\ extracted' = Extracted(0, JNull)
    /\ plan_tasks' = JNull /\ plan_error' = ""
    /\ UNCHANGED offPlanner

PlanDone == PlanTaken /\ UNCHANGED previous

PlanNext == CreateAdvancedPlan \/ Analyze \/ ScriptReply \/ PlanReply \/ PlanDone

PlanSpec == Init /\ [][PlanNext]_vars

\* the caller takes the plan, or the exception, and how the call ended is
\* kept for comparison with the next call
PlanDoneObserved ==
    /\ PlanTaken
    /\ previous' = [goal |-> user_request, ppc |-> ppc, tasks |-> plan_tasks,
                    error |-> plan_error]

RepeatNext ==
    CreateAdvancedPlan \/ Analyze \/ ScriptReply \/ PlanReply \/ PlanDoneObserved

\* calls of create_advanced_plan, one after the other
RepeatSpec == Init /\ [][RepeatNext]_vars

(***************************************************************************)
(* Calls of the layout functions of SpatialEngine (static methods: any     *)
(* caller, at any time).                                                   *)
(***************************************************************************)
CalculateObbyPlatforms ==
    /\ \E num_platforms \in Counts, difficulty \in Difficulties :
         /\ call' = [NoCall EXCEPT !.op = "calculate_obby_platforms",
                                   !.count = num_platforms,
                                   !.difficulty = difficulty]
         /\ layout' = LayoutReturned(calculate_obby_platforms(num_platforms, difficulty))
    /\ UNCHANGED offLayout

CalculateGridLayout ==
    /\ \E num_objects \in Counts, object_size \in ObjectSizes, spacing \in Spacings :
         /\ call' = [NoCall EXCEPT !.op = "calculate_grid_layout",
                                   !.count = num_objects,
                                   !.object_size = object_size,
                                   !.spacing = spacing]
         /\ layout' = calculate_grid_layout(num_objects, object_size, spacing)
    /\ UNCHANGED offLayout

CalculateCircularLayout ==
    /\ \E num_objects \in Counts, radius \in Radii :
         /\ call' = [NoCall EXCEPT !.op = "calculate_circular_layout",
                                   !.count = num_objects]
         /\ layout' = calculate_circular_layout(num_objects, radius, 5)
    /\ UNCHANGED offLayout

CalculateStaircase ==
    /\ \E num_steps \in Counts, rise \in Rises :
         /\ call' = [NoCall EXCEPT !.op = "calculate_staircase",
                                   !.count = num_steps, !.spacing = rise]
         /\ layout' = calculate_staircase(num_steps, <<10, 1, 4>>, rise, 4)
    /\ UNCHANGED offLayout

LayoutNext == CalculateObbyPlatforms \/ CalculateGridLayout
                  \/ CalculateCircularLayout \/ CalculateStaircase

LayoutSpec == Init /\ [][LayoutNext]_vars

(***************************************************************************)
(* Properties.                                                             *)
(***************************************************************************)
Positions == 1..Len(tasks)      \* position k holds the task of plan index k-1
FailedAll(k) == attempts[k].made = max_retries /\ attempts[k].last = "fail"
Succeeded(k) == attempts[k].last = "ok"
Unexecuted(k) == attempts[k].made = 0
ErrorsFor(errs, index) == {e \in 1..Len(errs) : errs[e].task_index = index}
HasFolder == [d \in Descriptions |-> Contains(Lower(d), "folder")]
UnknownKind(k) == tasks[k].type \notin KnownKinds
\* the task of the latest attempt
Attempted == tasks[att.index + 1]

\* C1: a task whose remote call fails on every attempt (each execution
\* request is answered by an object carrying an error field) is attempted
\* exactly max_retries times and then has exactly one entry in errors.
C1_RemoteFailureRetriedThenRecorded ==
    pc = "returned" =>
        \A k \in Positions :
            (attempts[k].made >= 1 /\ attempts[k].remoteErrors = attempts[k].made)
            => /\ attempts[k].made = max_retries
               /\ Cardinality(ErrorsFor(summary.errors, k - 1)) = 1

\* C2: an execution call answered by an object carrying an error field makes
\* the attempt a failed one: it neither goes on to verification nor succeeds.
C2_ErrorPayloadFailsAttempt ==
    (att.phase # "none" /\ att.execRequests # <<>>
        /\ "error" \in att.execResult.keys)
    => att.phase = "failed"

\* C3 as claimed: a task mentioning "folder" that fails all its attempts halts
\* the plan (nothing after it is executed or in results); after an unmarked
\* failing task that is not among the first two, every later task is executed.
C3_HaltOnFolderElseAllLaterRun ==
    pc = "returned" =>
        \A k \in Positions : FailedAll(k) =>
            /\ HasFolder[tasks[k].description] =>
                 /\ \A m \in (k + 1)..Len(tasks) : Unexecuted(m)
                 /\ Len(summary.results)
                      = Cardinality({m \in 1..(k - 1) : Succeeded(m)})
            /\ (~ Marked[tasks[k].description] /\ k > 2) =>
                 \A m \in (k + 1)..Len(tasks) : ~ Unexecuted(m)

\* C3 amended: a task mentioning "folder" that fails all its attempts halts
\* the plan; an unmarked failing task that is not among the first two does
\* not: the task after it is executed, and a later task is left unexecuted
\* only when a marked task between them failed all its attempts.
C3_HaltOnFolderElseContinue ==
    pc = "returned" =>
        \A k \in Positions : FailedAll(k) =>
            /\ HasFolder[tasks[k].description] =>
                 /\ \A m \in (k + 1)..Len(tasks) : Unexecuted(m)
                 /\ Len(summary.results)
                      = Cardinality({m \in 1..(k - 1) : Succeeded(m)})
            /\ (~ Marked[tasks[k].description] /\ k > 2) =>
                 \A m \in (k + 1)..Len(tasks) : Unexecuted(m) =>
                     \E h \in (k + 1)..(m - 1) :
                         FailedAll(h) /\ Marked[tasks[h].description]

C3_Witness ==
    /\ pc = "returned"
    /\ \E k \in Positions :
         /\ k > 2 /\ FailedAll(k) /\ ~ Marked[tasks[k].description]
         /\ k < Len(tasks) /\ ~ Unexecuted(k + 1)
    /\ \E h \in Positions :
         /\ FailedAll(h) /\ HasFolder[tasks[h].description]
         /\ h < Len(tasks) /\ Unexecuted(h + 1)

\* C4: while a plan runs, the task at hand is classified critical exactly
\* when its description mentions "folder" or "structure" or its plan index
\* is 0 or 1, also in a plan run after earlier plans on the same engine.
C4_CriticalIffMarkedOrFirstTwo ==
    pc \in {"execute", "verify"} =>
        (IsCriticalTask(task, execution_history)
            <=> (Marked[task.description] \/ i < 2))

\* C5: a returned summary has completed_tasks <= total_tasks and its errors
\* hold exactly one entry for each task whose final attempt failed and none
\* for a task that succeeded or was never executed.
C5_CompletedBoundedErrorsOneToOne ==
    pc = "returned" =>
        /\ summary.completed_tasks <= summary.total_tasks
        /\ \A k \in Positions :
             Cardinality(ErrorsFor(summary.errors, k - 1))
                 = IF attempts[k].last = "fail" THEN 1 ELSE 0
        /\ \A e \in 1..Len(summary.errors) :
             summary.errors[e].task_index \in 0..(Len(tasks) - 1)

C5_Witness ==
    /\ pc = "returned"
    /\ \E k \in Positions : attempts[k].last = "fail"
    /\ \E k \in Positions : Succeeded(k)
    /\ \E k \in Positions : Unexecuted(k)

\* C6: success is true exactly when completed_tasks = total_tasks, where
\* completed_tasks is the number of results (one per task that succeeded)
\* and total_tasks the length of the submitted plan; when tasks were left
\* unexecuted by a halt they are not in results and success is false.
C6_SuccessIffAllCompleted ==
    pc = "returned" =>
        /\ summary.success <=> (summary.completed_tasks = summary.total_tasks)
        /\ summary.completed_tasks = Len(summary.results)
        /\ Len(summary.results) = Cardinality({k \in Positions : Succeeded(k)})
        /\ summary.total_tasks = Len(tasks0)
        /\ (\E k \in Positions : Unexecuted(k)) => ~ summary.success

C6_Witness ==
    /\ pc = "returned"
    /\ ~ summary.success
    /\ summary.completed_tasks >= 1
    /\ summary.completed_tasks + Len(summary.errors) < summary.total_tasks

VerificationRan ==
    /\ att.phase \in {"succeeded", "failed"}
    /\ att.message \in {"Success", "Verification failed"}
    /\ Attempted.verify_with # ""
VerificationFailed ==
    att.phase = "failed" /\ att.message = "Verification failed"

\* C7 as claimed: verification fails a task only when a
\* get_instance_properties check reports the origin for a task whose
\* expected pose is not the origin.
C7_FailsOnlyOnOriginMismatch ==
    VerificationFailed =>
        /\ Attempted.verify_with = "get_instance_properties"
        /\ OriginMismatch(Attempted, att.verifyResult)

\* C7 amended: verification fails a task in exactly two cases, both of a
\* get_instance_properties check answered without an error field: the answer
\* is empty or not an object, or it reports the origin for a task whose
\* expected pose is not the origin; every other outcome is a pass.
C7_FailsOnEmptyOrOriginMismatch ==
    VerificationRan =>
        (VerificationFailed <=>
            /\ Attempted.verify_with = "get_instance_properties"
            /\ ~ att.verifyRaised
            /\ "error" \notin att.verifyResult.keys
            /\ \/ ~ (Truthy(att.verifyResult) /\ IsDict(att.verifyResult))
               \/ OriginMismatch(Attempted, att.verifyResult))

C7_Witness ==
    /\ VerificationFailed
    /\ att.verifyRequests # <<>>
    /\ ~ OriginMismatch(Attempted, att.verifyResult)

\* C8: for a task whose type _execute_task does not know no request is ever
\* sent, no attempt succeeds, and once the plan has returned the task has
\* failed with one errors entry that records the unknown type.
C8_UnknownKindFailsWithoutRequest ==
    \A k \in Positions : UnknownKind(k) =>
        /\ attempts[k].execSent = 0 /\ attempts[k].verifySent = 0
        /\ attempts[k].last # "ok"
        /\ (pc = "returned" /\ ~ Unexecuted(k)) =>
             /\ attempts[k].last = "fail"
             /\ \E e \in 1..Len(summary.errors) :
                  /\ ErrorsFor(summary.errors, k - 1) = {e}
                  /\ summary.errors[e].error =
                       "Execution failed: Unknown task type: " \o tasks[k].type

C8_Witness ==
    /\ pc = "returned"
    /\ \E k \in Positions : UnknownKind(k) /\ FailedAll(k)

\* the operation each known type is dispatched to
EndpointOf(type) ==
    IF type = "create_script" THEN "create_object_with_properties" ELSE type

OneRequestOfItsKind ==
    /\ Len(att.execRequests) = 1
    /\ att.execRequests[1].endpoint = EndpointOf(Attempted.type)
    /\ Attempted.type = "create_script" =>
         /\ Has(att.execRequests[1].json, "properties")
         /\ Has(att.execRequests[1].json.properties, "Source")
         /\ att.execRequests[1].json.properties.Source = Attempted.params.content
    /\ Attempted.type = "mass_create_objects_with_properties" =>
         att.execRequests[1].json.objects = Attempted.params.objects

C10_PlanUnchangedByRepair ==
    pc = "returned" => tasks = tasks0

\* no test of _attempt_fix matches the error text
NoFixMatches(message) ==
    ~ Matches[message].fix1 /\ ~ Matches[message].fix2 /\ ~ Matches[message].fix3

\* the task at position k was given up with an error text no test matches
GaveUpUnrepaired(k) ==
    /\ attempts[k].last = "fail"
    /\ \E e \in ErrorsFor(summary.errors, k - 1) :
         NoFixMatches(summary.errors[e].error)

\* C11 as claimed: a task given up with an error text that no repair
\* heuristic matches was retried unmodified once: two attempts in all.
C11_RetriedOnceThenGivenUp ==
    pc = "returned" =>
        \A k \in Positions : GaveUpUnrepaired(k) =>
            /\ attempts[k].made = 2
            /\ tasks[k] = tasks0[k]

\* C11 amended: a task given up with an error text that no repair heuristic
\* matches was retried unmodified until max_retries attempts had been made
\* (twice after the first failure), and then recorded once in errors.
C11_RetriedToMaxThenGivenUp ==
    pc = "returned" =>
        \A k \in Positions : GaveUpUnrepaired(k) =>
            /\ attempts[k].made = max_retries
            /\ tasks[k] = tasks0[k]
            /\ Cardinality(ErrorsFor(summary.errors, k - 1)) = 1

C11_Witness ==
    /\ pc = "returned"
    /\ \E k \in Positions :
         /\ GaveUpUnrepaired(k)
         /\ attempts[k].made = max_retries
         /\ attempts[k].verifySent = max_retries

\* C12: whatever list is submitted, elements that are not task objects
\* included, no exception leaves execute_plan_with_recovery: the call ends
\* by returning a summary.
C12_NoExceptionEscapes ==
    pc # "raised"

\* C13: when the obby plan runs and the container, the platforms and the
\* spawn point are created without any error from the service, every task
\* of the plan other than the move task is executed, whatever becomes of
\* the move task.
C13_ObbyMoveIsBestEffort ==
    ( /\ pc = "returned"
      /\ tasks0 = ObbyPlan
      /\ \A k \in 1..3 : Succeeded(k) /\ attempts[k].remoteErrors = 0 )
    => \A k \in {1, 2, 3, 5} : ~ Unexecuted(k)

(***************************************************************************)
(* Properties of the planner, checked under PlanSpec.                      *)
(***************************************************************************)
Planning == planner # "none"
PlanningOver == ppc \in {"returned", "raised"}
PlannedTasks == plan_tasks.items
NumPlanned == Len(PlannedTasks)

\* task k of the returned plan is a dict of the given type
IsTask(k, type) ==
    /\ k <= NumPlanned
    /\ PlannedTasks[k].shape = "dict"
    /\ HasKey(PlannedTasks[k], "type")
    /\ Field(PlannedTasks[k], "type") = JStr(type)
    /\ HasKey(PlannedTasks[k], "params")
    /\ Field(PlannedTasks[k], "params").shape = "dict"

ParamsOf(k) == Field(PlannedTasks[k], "params")
ParamIs(k, key, value) ==
    HasKey(ParamsOf(k), key) /\ Field(ParamsOf(k), key) = JStr(value)

\* C14: once planning is over for a goal handed to the obby planner with a
\* platform count n >= 1, a plan was returned and it holds exactly five
\* tasks: the Checkpoints folder, one bulk creation of n objects, the
\* spawn point, the checkpoint script, and the move into the folder, in
\* this order.
C14_ObbyPlanOfFiveTasks ==
    (PlanningOver /\ planner = "obby" /\ locals.num_platforms >= 1) =>
        /\ ppc = "returned"
        /\ NumPlanned = 5
        /\ IsTask(1, "create_object") /\ ParamIs(1, "name", "Checkpoints")
        /\ IsTask(2, "mass_create_objects_with_properties")
        /\ HasKey(ParamsOf(2), "objects")
        /\ Len(Field(ParamsOf(2), "objects").items) = locals.num_platforms
        /\ IsTask(3, "create_object_with_properties")
        /\ ParamIs(3, "className", "SpawnLocation")
        /\ IsTask(4, "create_script") /\ ParamIs(4, "name", "CheckpointSystem")
        /\ IsTask(5, "move_to_folder")

\* C15: every task of a plan the planner returns is a dict whose type is
\* one of the task types the engine knows and whose params is a dict.
C15_ReturnedTasksAreOfKnownKinds ==
    ppc = "returned" =>
        \A k \in 1..NumPlanned : \E type \in KnownKinds : IsTask(k, type)

\* C16: no exception leaves create_advanced_plan, whatever the goal and
\* whatever the planning service answers.
C16_PlannerNeverRaises == ppc # "raised"

\* the text holds no task list the extraction finds: what was extracted is
\* not a list, or is an empty one
NoTaskList(text) ==
    Extraction[text].node.shape # "list" \/ Extraction[text].node.items = <<>>

\* C17: for a goal no pattern recognizer takes, when none of the answers to
\* the planning prompt holds a non-empty task list, planning ends after
\* plan_max_retries exchanges and returns exactly one task, of type chat;
\* the loop never runs more than plan_max_retries rounds.
C17_FallsBackToOneChatTask ==
    /\ plan_attempt <= plan_max_retries
    /\ Len(responses) = plan_attempt
    /\ (planner = "generic" /\ PlanningOver
            /\ \A k \in 1..Len(responses) : NoTaskList(responses[k])) =>
          /\ ppc = "returned"
          /\ Len(responses) = plan_max_retries
          /\ NumPlanned = 1
          /\ IsTask(1, "chat")
          /\ plan_tasks = JList(<<FallbackTask>>)

\* a generic goal has fallen back to the chat task after exchanges that
\* failed, held no JSON, or held JSON that is no task list
C17_Witness ==
    /\ planner = "generic" /\ ppc = "returned"
    /\ responses = <<quotaText, wrappedText>>
    /\ plan_tasks = JList(<<FallbackTask>>)

\* the strategies whose extract of the text parses as a list
ListStrategies ==
    [text \in Replies |->
        {k \in 1..NumStrategies :
            LET extract == Strategy(k, Strip(text))
            IN  /\ extract # ""
                /\ json_loads(Strip(extract)).ok
                /\ json_loads(Strip(extract)).node.shape = "list"}]

\* C18: the extraction of an answer to the planning prompt is the value of
\* the first strategy whose extract parses as a list (the shape of a task
\* array); an extract that parses as something else does not win; when no
\* strategy yields a list nothing is extracted.
C18_FirstStrategyOfExpectedShapeWins ==
    (planner = "generic" /\ responses # <<>>) =>
        LET text == responses[Len(responses)]
            winners == ListStrategies[text]
        IN  IF winners = {} THEN extracted.by = 0
            ELSE /\ extracted.by \in winners
                 /\ \A k \in winners : extracted.by <= k
                 /\ extracted.node.shape = "list"

\* the plan function the ordered, first-match rules give each goal
ExpectedPlanner ==
    [goal \in Goals |->
        CASE goal \in {"build a 5 platform easy obby", "hard obby",
                       "make an obby with 0 stages", "tycoon obstacle course",
                       "create a PARKOUR script, 3 levels"} -> "obby"
          [] goal = "build a tycoon" -> "tycoon"
          [] goal \in {"Build a small tower",
                       "create a code system for my shop"} -> "building"
          [] goal \in {"create a local script named Greeter",
                       "create a module system"} -> "script"
          [] OTHER -> "generic"]

\* C19: once planning is over, a plan was returned, and it is the plan of
\* the first rule the goal matches: obby, else tycoon, else building, else
\* script authoring, else the generic plan.
C19_FirstMatchingRuleGivesThePlan ==
    PlanningOver =>
        /\ ppc = "returned"
        /\ planner = ExpectedPlanner[user_request]
        /\ planner = "obby" => NumPlanned = 5 /\ ParamIs(1, "name", "Checkpoints")
        /\ planner = "tycoon" => NumPlanned = 2 /\ ParamIs(1, "name", "TycoonData")
        /\ planner = "building" =>
               NumPlanned = 1 /\ IsTask(1, "mass_create_objects_with_properties")
        /\ planner = "script" => NumPlanned = 1 /\ IsTask(1, "create_script")

\* the position of platform k (0-based) of platform_configs
PlatformAt(k) ==
    LET pos == PositionOf(Field(Field(locals.platform_configs[k + 1],
                                      "properties"), "CFrame"))
    IN  [x |-> ToInt(pos[1]), y |-> ToInt(pos[2]), z |-> ToInt(pos[3])]

HardCourseOfTen == locals.num_platforms = 10 /\ locals.difficulty = "hard"

\* C20 as stated: calculate_obby_platforms(10, 'hard') returns 10 poses,
\* the first at (0,5,0), the second at x = 12 and z = -4, and the fourth at
\* the height of the first plus the hard tier's y step of 4.
C20_HardCourseAsStated ==
    HardCourseOfTen =>
        /\ Len(locals.platform_configs) = 10
        /\ PlatformAt(0) = [x |-> 0, y |-> 5, z |-> 0]
        /\ PlatformAt(1).x = 12
        /\ PlatformAt(1).z = -4
        /\ PlatformAt(3).y = PlatformAt(0).y + settings["hard"].y_variation

\* C20, amended: calculate_obby_platforms(10, 'hard') returns 10 poses, the
\* first at (0,5,0), the second at x = 12 and z = +4 (an odd index adds the
\* z spacing), and the fourth at the height of the first, less half the y
\* step (taken off at index 1), plus the y step of 4 (added at index 3).
C20_HardCourse ==
    HardCourseOfTen =>
        /\ Len(locals.platform_configs) = 10
        /\ PlatformAt(0) = [x |-> 0, y |-> 5, z |-> 0]
        /\ PlatformAt(1).x = 12
        /\ PlatformAt(1).z = 4
        /\ PlatformAt(3).y = PlatformAt(0).y - (settings["hard"].y_variation \div 2)
                                            + settings["hard"].y_variation

\* _plan_obby has computed the platforms of a hard course of ten
C20_Witness ==
    /\ planner = "obby" /\ user_request = "hard obby"
    /\ HardCourseOfTen
    /\ Len(locals.platform_configs) = 10

(***************************************************************************)
(* Properties of the layout functions, checked under LayoutSpec.           *)
(***************************************************************************)
Called(op) == call.op = op
NumLaidOut == Len(layout.value)

\* x and z of element k of the list returned: of the CFrame itself, or of
\* the CFrame among the properties of an object
LaidOutAt(k) ==
    LET element == layout.value[k]
        cframe == IF HasKey(element, "properties")
                  THEN Field(Field(element, "properties"), "CFrame")
                  ELSE element
        pos == PositionOf(cframe)
    IN  [x |-> ToInt(pos[1]), y |-> pos[2], z |-> ToInt(pos[3])]

\* the number a name ends with, after a prefix of the given length
IndexSuffix(k, prefix) ==
    LET name == Field(layout.value[k], "name").text
    IN  ToInt(SubSeq(name, prefix + 1, Len(name)))

Distance(a, b) == IF a >= b THEN a - b ELSE b - a

\* the x spacing of each difficulty tier
TierSpacing == [easy |-> 8, medium |-> 10, hard |-> 12]

\* C21: calculate_obby_platforms called with a count >= 1 and the tier
\* easy, medium or hard returns exactly count platforms; each platform
\* lies the tier's x_spacing further along x than the one before it; no two
\* platforms are at the same position; and the number each name ends with
\* grows from one platform to the next.
C21_PlatformsSpacedAndNumbered ==
    (Called("calculate_obby_platforms") /\ call.count >= 1
         /\ call.difficulty \in DOMAIN TierSpacing) =>
        /\ ~ layout.raised
        /\ NumLaidOut = call.count
        /\ \A k \in 1..(NumLaidOut - 1) :
             /\ LaidOutAt(k + 1).x - LaidOutAt(k).x = TierSpacing[call.difficulty]
             /\ IndexSuffix(k + 1, 8) > IndexSuffix(k, 8)
        /\ \A j, k \in 1..NumLaidOut : j # k => LaidOutAt(j) # LaidOutAt(k)

\* a course of at least four easy platforms has been laid out
C21_Witness ==
    /\ Called("calculate_obby_platforms") /\ call.count >= 4
    /\ call.difficulty = "easy"
    /\ NumLaidOut = call.count

\* C22: calculate_grid_layout called with a count >= 1 returns exactly
\* count poses, and any two of them lie at least the object's size plus
\* the spacing apart along x or along z.
C22_GridCellsDoNotOverlap ==
    (Called("calculate_grid_layout") /\ call.count >= 1) =>
        /\ ~ layout.raised
        /\ NumLaidOut = call.count
        /\ \A j, k \in 1..NumLaidOut :
             j # k =>
               \/ Distance(LaidOutAt(j).x, LaidOutAt(k).x)
                      >= call.object_size[1] + call.spacing
               \/ Distance(LaidOutAt(j).z, LaidOutAt(k).z)
                      >= call.object_size[3] + call.spacing

\* a grid of more than one row has been laid out with a spacing
C22_Witness ==
    /\ Called("calculate_grid_layout") /\ call.count >= 5 /\ call.spacing > 0
    /\ NumLaidOut = call.count
    /\ LaidOutAt(NumLaidOut).z > 0 /\ LaidOutAt(2).x > 0

\* C23: a layout function called with a count that is not positive is left
\* by InvalidParameterError, and a call with a positive count is left by
\* no exception, whatever the difficulty.
C23_NonPositiveCountIsRefused ==
    ~ Called("none") =>
        IF call.count <= 0
        THEN layout.raised /\ layout.error = "InvalidParameterError"
        ELSE ~ layout.raised

(***************************************************************************)
(* Properties of message processing, checked under MessageSpec.            *)
(***************************************************************************)
\* C24: while the plan of a message is executed whose health probe found
\* the service unreachable, no request of any task of the plan has been
\* sent to the service.
C24_NothingSentWhenProbeFailed ==
    (pc # "idle" /\ ~ connected) =>
        \A k \in 1..Len(attempts) :
            attempts[k].execSent = 0 /\ attempts[k].verifySent = 0

(***************************************************************************)
(* Properties of the engine's control loop, checked under Spec.            *)
(***************************************************************************)
Running == pc \in {"execute", "verify"}
InRun == pc \in {"execute", "verify", "finish", "returned"}
\* the task at position k has reached SUCCESS, or FAILED (its errors entry)
Settled(k) == Succeeded(k) \/ ErrorsFor(errors, k - 1) # {}
\* an attempt of the task at position k starts in this step
AttemptStarts(k) == attempts'[k].made > attempts[k].made

\* C25: every task follows the per-task state machine.  A task not yet
\* taken by the loop is unattempted (PENDING); verification runs only after
\* a successful execution of a task that declares verify_with; a task
\* succeeds only in a step that ends a successful execution without
\* verify_with or a passed verification; a repair happens only when
\* attempts remain and is followed by another execution; a task has an
\* errors entry (FAILED) only once max_retries attempts were made and the
\* last one failed; no attempt starts for a task that succeeded or failed.
C25_TaskStateMachine ==
    /\ [](InRun =>
            /\ pc = "verify" =>
                   /\ task.verify_with # ""
                   /\ att.index = i /\ att.phase = "verifying"
            /\ \A k \in Positions :
                 /\ (Running /\ k > i + 1) => Unexecuted(k)
                 /\ ErrorsFor(errors, k - 1) # {} => FailedAll(k)
                 /\ Succeeded(k) => ErrorsFor(errors, k - 1) = {})
    /\ [][Running =>
            \A k \in Positions :
                /\ AttemptStarts(k) =>
                       /\ pc = "execute" /\ k = i + 1
                       /\ ~ Settled(k)
                       /\ attempts[k].made < max_retries
                /\ (attempts'[k].last = "ok" /\ attempts[k].last # "ok") =>
                       /\ k = i + 1
                       /\ \/ pc = "execute" /\ tasks[k].verify_with = ""
                          \/ pc = "verify"
                /\ tasks'[k] # tasks[k] =>
                       /\ k = i + 1
                       /\ pc' = "execute"
                       /\ attempt' = attempt + 1
                       /\ attempt' < max_retries]_vars

\* a plan has returned in which one task failed after a repair and all its
\* attempts, and another succeeded after its verification
C25_Witness ==
    /\ pc = "returned"
    /\ \E k \in Positions : FailedAll(k) /\ tasks[k] # tasks0[k]
    /\ \E k \in Positions : Succeeded(k) /\ attempts[k].verifySent > 0

\* C26: tasks run one at a time in plan order.  A task has been attempted
\* only when every task before it has succeeded or failed; each step sends
\* at most one request and has its answer before the next step; results
\* grows by one entry, at its end, when the task at hand succeeds, so that
\* there is one result per succeeded task; the entries of errors carry
\* increasing plan indexes.
C26_OneTaskAtATimeInPlanOrder ==
    /\ [](InRun =>
            /\ \A k \in Positions :
                 attempts[k].made > 0 => \A j \in 1..(k - 1) : Settled(j)
            /\ Len(att.execRequests) <= 1 /\ Len(att.verifyRequests) <= 1
            /\ Len(results) = Cardinality({k \in Positions : Succeeded(k)})
            /\ \A d, e \in 1..Len(errors) :
                 d < e => errors[d].task_index < errors[e].task_index)
    /\ [][Running =>
            /\ i' >= i
            /\ results' # results =>
                 /\ Len(results') = Len(results) + 1
                 /\ SubSeq(results', 1, Len(results)) = results
                 /\ ~ Succeeded(i + 1)
                 /\ attempts'[i + 1].last = "ok"
                 /\ i' = i + 1]_vars

\* a plan has returned with two results and, after them, an errors entry
C26_Witness ==
    /\ pc = "returned"
    /\ Len(results) = 2 /\ Succeeded(1) /\ Succeeded(2)
    /\ Len(errors) >= 1 /\ errors[1].task_index = 2

\* a pose that is neither a list nor the dict vector3_to_cframe builds
Unparsed(pose) == pose.fmt \notin {"list", "dict"}

\* what the claimed heuristics may turn the task into, given the error text
ClaimedRepairs(t, message) ==
    {t}
    \cup (IF /\ Matches[message].fix1
             /\ Has(t.params, "properties")
             /\ Has(t.params.properties, "CFrame")
             /\ Unparsed(t.params.properties.CFrame)
          THEN {[t EXCEPT !.params.properties.CFrame = Pose("list", <<0, 5, 0>>)]}
          ELSE {})
    \cup (IF Matches[message].fix2 /\ Has(t.params, "parent")
          THEN {[t EXCEPT !.params.parent = SplitFirst(@)]}
          ELSE {})
    \cup (IF Matches[message].fix3 /\ Has(t.params, "properties")
          THEN {[t EXCEPT !.params.properties =
                    [k \in DOMAIN @ \cap essential |-> @[k]]]}
          ELSE {})

\* C27: the task the retry loop goes on with after a failed attempt is the
\* failed task unchanged, or the task with exactly one of the repairs
\* applied that its error text selects: the safe default pose in place of an
\* unparsed pose (a well-formed pose stays), the parent path cut to its
\* first segment, or the properties filtered down to the whitelist.
C27_RepairIsOneClaimedHeuristic ==
    [][(Running /\ pc' = "execute" /\ attempt' = attempt + 1) =>
          tasks'[i + 1] \in ClaimedRepairs(tasks[i + 1], last_error')]_vars

\* every attempt of the task at position k passed execution and failed
\* verification
VerificationKeptFailing(k) ==
    FailedAll(k) /\ attempts[k].verifySent = max_retries

\* C28: "Verification failed" matches no repair heuristic, so the retry
\* after a failed verification goes on with the task as it was; a task
\* whose verification failed on every attempt was executed unrepaired each
\* time: its request was sent max_retries times, the task is as it was
\* submitted, and its one errors entry reads "Verification failed".
C28_FailedVerificationRepeatsTheOperation ==
    /\ [](/\ NoFixMatches("Verification failed")
          /\ InRun =>
               \A k \in Positions : (VerificationKeptFailing(k) /\ Settled(k)) =>
                   /\ attempts[k].execSent = max_retries
                   /\ tasks[k] = tasks0[k]
                   /\ \A e \in ErrorsFor(errors, k - 1) :
                          errors[e].error = "Verification failed")
    /\ [][(pc = "verify" /\ pc' = "execute" /\ i' = i) =>
              /\ last_error' = "Verification failed"
              /\ attempt' = attempt + 1
              /\ tasks' = tasks]_vars

\* the spawn point was created three times because its verification kept
\* failing
C28_Witness ==
    /\ pc = "returned"
    /\ \E k \in Positions :
         /\ VerificationKeptFailing(k)
         /\ tasks[k].type = "create_object_with_properties"
         /\ attempts[k].execSent = max_retries
         /\ attempts[k].remoteErrors = 0

\* attempts made so far by the tasks at positions 1..k
RECURSIVE AttemptsMade(_)
AttemptsMade(k) == IF k = 0 THEN 0 ELSE AttemptsMade(k - 1) + attempts[k].made

\* the steps left at most before execute_plan_with_recovery has returned
StepsLeft ==
    CASE pc = "execute" -> (Len(tasks) - i) * 2 * max_retries - 2 * attempt + 2
      [] pc = "verify" -> (Len(tasks) - i) * 2 * max_retries - 2 * attempt + 1
      [] pc = "finish" -> 1
      [] OTHER -> 0

\* C29: execute_plan_with_recovery terminates and stays within its bounds.
\* No task is attempted more than max_retries times, so at most
\* max_retries * n attempts are made for a plan of n tasks; a task is
\* repaired only on the way to a further attempt, at most max_retries - 1
\* times; every step of a run lowers a bound on the steps left that is
\* never negative; and, each call returning, a run that was started ends:
\* the function returns its summary or is left by an exception.
C29_TerminatesWithinBounds ==
    /\ [](/\ StepsLeft >= 0
          /\ InRun =>
               /\ \A k \in Positions : attempts[k].made <= max_retries
               /\ AttemptsMade(Len(tasks)) <= max_retries * Len(tasks)
               /\ attempt <= max_retries - 1)
    /\ [][/\ pc \in {"execute", "verify", "finish"} => StepsLeft' < StepsLeft
          /\ Running =>
               \A k \in Positions :
                   tasks'[k] # tasks[k] => attempt' = attempt + 1]_vars
    /\ (pc \in {"execute", "verify", "finish"}) ~> (pc \in {"returned", "raised"})

\* a plan of two tasks has returned after max_retries attempts of each
C29_Witness ==
    /\ pc = "returned"
    /\ Len(tasks) = 2
    /\ AttemptsMade(2) = 2 * max_retries

(***************************************************************************)
(* Two calls of create_advanced_plan with the same goal, checked under     *)
(* RepeatSpec: the call that has just ended against the one before it.     *)
(***************************************************************************)
\* the call that has ended and the one before it had the same goal, one the
\* pattern recognizers take
SamePatternGoalTwice ==
    /\ PlanningOver
    /\ previous.goal = user_request
    /\ ExpectedPlanner[user_request] \in {"obby", "tycoon", "building"}

\* two calls with the same recognized goal end alike: with the same task
\* list, or with the same exception
PatternOutcomeDependsOnlyOnGoal ==
    SamePatternGoalTwice =>
        /\ ppc = previous.ppc
        /\ plan_tasks = previous.tasks
        /\ plan_error = previous.error

\* C30: for a goal recognized as obby, tycoon or building, two calls of
\* create_advanced_plan with the same goal, whatever the planning service
\* answered in each, both return a task list, and the two lists are equal.
C30_PatternPlanDependsOnlyOnGoal ==
    SamePatternGoalTwice =>
        /\ ppc = "returned" /\ previous.ppc = "returned"
        /\ plan_tasks = previous.tasks

\* the tycoon goal was planned twice, the analysis answered differently
TycoonPlannedTwice ==
    /\ SamePatternGoalTwice
    /\ planner = "tycoon"
    /\ ppc = "returned" /\ NumPlanned = 2
====
